---- MODULE Spec2Model ----
\* IP valuation engine: segment financial allocator with its cache, the three
\* valuation methods, the DCF of the fair-value cross-check, and the asset and
\* portfolio orchestration (src/ip_valuation_engine.py, src/fair_value_calculator.py).
EXTENDS Integers, Sequences, FiniteSets, TLC

\* ---------------------------------------------------------------------------
\* Bounds
\* ---------------------------------------------------------------------------
\* calls of prepare_segment_financials in one behaviour of the allocator
MaxOps == 2
\* calls of value_ip_asset and value_ip_portfolio in one behaviour of the engine
MaxValuations == 1
\* longest portfolio handed to value_ip_portfolio
MaxPortfolio == 2

\* ---------------------------------------------------------------------------
\* Numbers: Python floats are modelled as exact rationals [n, d], d > 0, in
\* lowest terms.  d = 0 is Python's None.
\* ---------------------------------------------------------------------------
Abs(x) == IF x < 0 THEN -x ELSE x

\* F applied to the value of v, with v evaluated once
Eval(v, F(_)) == CHOOSE r \in { F(x) : x \in {v} } : TRUE

RECURSIVE GCD(_, _)
GCD(a, b) == IF b = 0 THEN a ELSE Eval(a % b, LAMBDA m : GCD(b, m))

Rat(n, d) ==
    Eval(GCD(Abs(n), Abs(d)),
         LAMBDA g : IF d < 0 THEN [n |-> (-n) \div g, d |-> (-d) \div g]
                    ELSE [n |-> n \div g, d |-> d \div g])

R(n) == [n |-> n, d |-> 1]
NoneV == [n |-> 0, d |-> 0]
IsNone(x) == x.d = 0
Zero == R(0)
One == R(1)

\* sums over the least common denominator and products with the cross factors
\* cancelled first, so that intermediate values stay small
AddV(x, y) ==
    Eval(GCD(x.d, y.d),
         LAMBDA g : Rat(x.n * (y.d \div g) + y.n * (x.d \div g), (x.d \div g) * y.d))
MulV(x, y) ==
    Eval(<<GCD(Abs(x.n), y.d), GCD(Abs(y.n), x.d)>>,
         LAMBDA g : Rat((x.n \div g[1]) * (y.n \div g[2]), (x.d \div g[2]) * (y.d \div g[1])))
NegV(x) == [n |-> -x.n, d |-> x.d]
InvV(y) == IF y.n < 0 THEN [n |-> -y.d, d |-> -y.n] ELSE [n |-> y.d, d |-> y.n]

RAdd(x, y) == Eval(<<x, y>>, LAMBDA a : AddV(a[1], a[2]))
RSub(x, y) == Eval(<<x, y>>, LAMBDA a : AddV(a[1], NegV(a[2])))
RMul(x, y) == Eval(<<x, y>>, LAMBDA a : MulV(a[1], a[2]))
\* callers test y for zero first: Python raises ZeroDivisionError there
RDiv(x, y) == Eval(<<x, y>>, LAMBDA a : MulV(a[1], InvV(a[2])))
RLt(x, y) == Eval(<<x, y>>, LAMBDA a : a[1].n * a[2].d < a[2].n * a[1].d)
RLe(x, y) == Eval(<<x, y>>, LAMBDA a : a[1].n * a[2].d <= a[2].n * a[1].d)
RIsZero(x) == x.n = 0
RMax(x, y) == Eval(<<x, y>>, LAMBDA a : IF a[1].n * a[2].d < a[2].n * a[1].d THEN a[2] ELSE a[1])

RECURSIVE RPow(_, _)
RPow(x, k) == IF k = 0 THEN One ELSE RMul(x, RPow(x, k - 1))

\* s[1] + ... + s[k], accumulated from 0 in list order
RECURSIVE RSumTo(_, _)
RSumTo(s, k) == IF k = 0 THEN Zero ELSE RAdd(RSumTo(s, k - 1), s[k])
RSum(s) == Eval(s, LAMBDA v : RSumTo(v, Len(v)))

Min(a, b) == IF a < b THEN a ELSE b

\* ---------------------------------------------------------------------------
\* Strings are sequences of one-character strings.
\* ---------------------------------------------------------------------------
\* str.lower() on the alphabet of the model
LowerChar(c) ==
    CASE c = "A" -> "a"
      [] c = "B" -> "b"
      [] OTHER -> c

\* a variant of Normalize that keeps hyphens
NormalizeKeepHyphen(s) ==
    LET kept == SelectSeq(s, LAMBDA c : c # " ")
    IN  [i \in 1..Len(kept) |-> LowerChar(kept[i])]

\* label.lower().replace(' ', '').replace('-', '')
Normalize(s) ==
    LET low == [i \in 1..Len(s) |-> LowerChar(s[i])]
    IN  SelectSeq(low, LAMBDA c : c # " " /\ c # "-")

DigitChar(d) == <<"0", "1", "2", "3", "4", "5", "6", "7", "8", "9">>[d + 1]

\* str(years) of a non-negative integer
RECURSIVE IntToStr(_)
IntToStr(k) == IF k < 10 THEN <<DigitChar(k)>> ELSE IntToStr(k \div 10) \o <<DigitChar(k % 10)>>

\* f"{ticker}_{segment_name}_{years}"
CacheKey(ticker, segment_name, years) ==
    ticker \o <<"_">> \o segment_name \o <<"_">> \o IntToStr(years)

\* ---------------------------------------------------------------------------
\* Inputs of the model
\* ---------------------------------------------------------------------------
Tickers == { <<"a">>, <<"a", "_", "b">> }
SegmentNames == { <<"a">>, <<"b", "_", "a">>, <<"A", "-", "a">>, <<"z">> }
YearCounts == { 3, 5 }

\* one revenue line item: {'amount': ..., 'segments': [{'label': ...}, ...]}
Item(amount, labels) == [amount |-> R(amount), segments |-> labels]
\* one income statement; an absent field reads as its .get default, 0
Statement(rev, gp, rd, oi) ==
    [revenue |-> R(rev), gross_profit |-> R(gp),
     research_and_development |-> R(rd), operating_income |-> R(oi)]

\* Responses of get_segmented_revenues.  ok = FALSE is the empty dict {} the
\* client returns on a transport error or an unknown demo ticker.
SegNoData == [ok |-> FALSE, periods |-> <<>>]
\* a non-empty response without 'segmented_revenues'
SegNoPeriods == [ok |-> TRUE, periods |-> <<>>]
SegFull ==
    [ok |-> TRUE,
     periods |-> <<
        << Item(60, << <<"a">> >>), Item(40, << <<"b", "_", "a">> >>),
           Item(10, << <<"a", " ", "a">> >>), Item(20, << <<"A", "-", "A">> >>) >>,
        << Item(50, << <<"b">>, <<"a">> >>) >> >>]
SegOther ==
    [ok |-> TRUE,
     periods |-> << << Item(30, << <<"b">> >>), Item(5, << <<>> >>), Item(7, <<>>),
                       Item(8, << <<"a", " ", "a">> >>) >> >>]
\* the most recent period does not report segment "b_a", the one before does
SegGap ==
    [ok |-> TRUE,
     periods |-> << << Item(30, << <<"b">> >>) >>, << Item(150, << <<"b", "_", "a">> >>) >> >>]
SegResponses == { SegNoData, SegNoPeriods, SegFull, SegOther, SegGap }

\* Responses of get_income_statement
IncNoData == [ok |-> FALSE, statements |-> <<>>]
\* a non-empty response whose statement list is empty
IncNoStatements == [ok |-> TRUE, statements |-> <<>>]
IncFull == [ok |-> TRUE, statements |-> << Statement(200, 100, 20, 50), Statement(100, 40, 10, -10) >>]
IncZero == [ok |-> TRUE, statements |-> << Statement(0, 0, 5, 0) >>]
IncRising == [ok |-> TRUE, statements |-> << Statement(100, 40, 10, -10), Statement(200, 100, 20, 50) >>]
IncResponses == { IncNoData, IncNoStatements, IncFull, IncZero, IncRising }

\* ---------------------------------------------------------------------------
\* prepare_segment_financials
\* ---------------------------------------------------------------------------
NoProfile == [none |-> TRUE]

\* inner loop over item['segments']: does some label of the item match?
RECURSIVE LabelMatches(_, _, _)
LabelMatches(segments, j, name_lower) ==
    IF j > Len(segments) THEN FALSE
    ELSE IF Normalize(segments[j]) = name_lower THEN TRUE
    ELSE LabelMatches(segments, j + 1, name_lower)

\* loop over period_data['items']: the amount of the first matching item, or
\* None when the period does not report the segment
RECURSIVE ScanItems(_, _, _)
ScanItems(items, i, name_lower) ==
    IF i > Len(items) THEN NoneV
    ELSE IF LabelMatches(items[i].segments, 1, name_lower) THEN items[i].amount
    ELSE ScanItems(items, i + 1, name_lower)

\* a variant of ExtractRevenues that returns the oldest period first
RECURSIVE ExtractRevenuesOldestFirst(_, _, _)
ExtractRevenuesOldestFirst(periods, p, name_lower) ==
    IF p > Len(periods) THEN <<>>
    ELSE LET amt == ScanItems(periods[p], 1, name_lower)
         IN  ExtractRevenuesOldestFirst(periods, p + 1, name_lower) \o (IF IsNone(amt) THEN <<>> ELSE <<amt>>)

\* loop over seg_data['segmented_revenues']: one revenue per period that matches
RECURSIVE ExtractRevenues(_, _, _)
ExtractRevenues(periods, p, name_lower) ==
    IF p > Len(periods) THEN <<>>
    ELSE LET amt == ScanItems(periods[p], 1, name_lower)
         IN  (IF IsNone(amt) THEN <<>> ELSE <<amt>>) \o ExtractRevenues(periods, p + 1, name_lower)

\* every label of every item of every period (the set printed by the error)
AvailableSegments(periods) ==
    UNION { UNION { { periods[p][i].segments[j] : j \in 1..Len(periods[p][i].segments) } :
                    i \in 1..Len(periods[p]) } :
            p \in 1..Len(periods) }

\* seg_rev / total_rev if total_rev > 0 else 0
Ratio(num, den) == IF RLt(Zero, den) THEN RDiv(num, den) ELSE Zero

BuildProfile(ticker, segment_name, segment_revenues, statements) ==
    LET k == Min(Len(segment_revenues), Len(statements))
        positive(i) == RLt(Zero, statements[i].revenue)
        segment_allocation ==
            [i \in 1..k |-> Ratio(segment_revenues[i], statements[i].revenue)]
        gp_margins ==
            [i \in 1..k |-> Ratio(statements[i].gross_profit, statements[i].revenue)]
        op_margins ==
            [i \in 1..k |-> Ratio(statements[i].operating_income, statements[i].revenue)]
    IN  Eval(<<segment_allocation, gp_margins, op_margins>>, LAMBDA m :
          [ticker |-> ticker,
           segment_name |-> segment_name,
           revenues |-> segment_revenues,
           gross_profits |->
               [i \in 1..k |-> IF positive(i) THEN RMul(segment_revenues[i], m[2][i]) ELSE Zero],
           gp_margins |-> m[2],
           rd_expenses |->
               [i \in 1..k |-> RMul(statements[i].research_and_development, m[1][i])],
           operating_incomes |->
               [i \in 1..k |-> IF positive(i) THEN RMul(segment_revenues[i], m[3][i]) ELSE Zero],
           operating_margins |-> m[3],
           allocation_pct |-> m[1],
           years |-> Len(segment_revenues)])

\* a variant of NotFound that lets an empty series through
NotFoundNever(segment_revenues) == FALSE

\* if not segment_revenues: raise ValueError("Segment ... not found ...")
NotFound(segment_revenues) == segment_revenues = <<>>

\* a variant of CacheWrite that keeps only the new entry
CacheWriteAlone(c, cache_key, result) == [x \in {cache_key} |-> result]

\* a variant of CacheWrite that updates an entry already there field by field,
\* the revenues first, and leaves the other fields for later
CacheWriteInPlace(c, cache_key, result) ==
    [x \in DOMAIN c \cup {cache_key} |->
        IF x # cache_key THEN c[x]
        ELSE IF x \in DOMAIN c THEN [c[x] EXCEPT !.revenues = result.revenues]
        ELSE result]

\* self.cache[cache_key] = result
CacheWrite(c, cache_key, result) ==
    [x \in DOMAIN c \cup {cache_key} |-> IF x = cache_key THEN result ELSE c[x]]

\* The call against a cache and the answers of the data source.  out is "ok",
\* "fetch_error" (ValueError "Unable to fetch data") or "segment_not_found"
\* (ValueError "Segment ... not found"); fetches counts the fetch rounds made
\* (one get_segmented_revenues plus one get_income_statement).
prepare_segment_financials(c, src, ticker, segment_name, years) ==
    LET cache_key == CacheKey(ticker, segment_name, years)
    IN  IF cache_key \in DOMAIN c
        THEN [out |-> "ok", profile |-> c[cache_key], hit |-> TRUE, fetches |-> 0,
              labels |-> {}, cache |-> c]
        ELSE IF ~src.seg.ok \/ ~src.inc.ok
        THEN [out |-> "fetch_error", profile |-> NoProfile, hit |-> FALSE, fetches |-> 1,
              labels |-> {}, cache |-> c]
        ELSE Eval(ExtractRevenues(src.seg.periods, 1, Normalize(segment_name)),
                  LAMBDA segment_revenues :
             IF NotFound(segment_revenues)
             THEN [out |-> "segment_not_found", profile |-> NoProfile, hit |-> FALSE,
                   fetches |-> 1, labels |-> AvailableSegments(src.seg.periods), cache |-> c]
             ELSE Eval(BuildProfile(ticker, segment_name, segment_revenues, src.inc.statements),
                       LAMBDA result :
                  [out |-> "ok", profile |-> result, hit |-> FALSE, fetches |-> 1,
                   labels |-> {},
                   cache |-> CacheWrite(c, cache_key, result)]))

\* ---------------------------------------------------------------------------
\* Valuation methods.  err is "none" when the method returns, else the name of
\* the Python exception that leaves it and at the expression that raised it.
\* ---------------------------------------------------------------------------
Failed(e, at) ==
    [err |-> e, at |-> at, method |-> "", total_value |-> NoneV, pv_explicit_period |-> NoneV,
     pv_terminal_value |-> NoneV, yearly_details |-> <<>>]

\* a variant of PresentValues that leaves the last row out of the sum
PresentValuesButLast(details) == [i \in 1..(Len(details) - 1) |-> details[i].present_value]

PresentValues(details) == [i \in 1..Len(details) |-> details[i].present_value]

\* a variant of Capitalize that multiplies by the spread
CapitalizeBySpread(terminal_royalty, wacc, terminal_growth) == RMul(terminal_royalty, RSub(wacc, terminal_growth))

\* terminal_value = terminal_royalty / (wacc - terminal_growth)
Capitalize(terminal_royalty, wacc, terminal_growth) == RDiv(terminal_royalty, RSub(wacc, terminal_growth))

\* a variant of TerminalRevenue that does not grow the last year
TerminalRevenueFlat(last_revenue, terminal_growth) == last_revenue

\* terminal_revenue = last_revenue * (1 + terminal_growth)
TerminalRevenue(last_revenue, terminal_growth) == RMul(last_revenue, RAdd(One, terminal_growth))

relief_from_royalty(segment_revenues, royalty_rate, tax_rate, wacc, attribution_pct, terminal_growth) ==
    LET N == Len(segment_revenues)
        savings(revenue) ==
            RMul(RMul(RMul(revenue, royalty_rate), RSub(One, tax_rate)), attribution_pct)
        row(year) ==
            Eval(<<savings(segment_revenues[year]), RPow(RAdd(One, wacc), year)>>, LAMBDA v :
                [year |-> year,
                 revenue |-> segment_revenues[year],
                 royalty_savings |-> v[1],
                 discount_factor |-> v[2],
                 present_value |-> RDiv(v[1], v[2])])
        last_revenue == segment_revenues[N]
        terminal_revenue == TerminalRevenue(last_revenue, terminal_growth)
        terminal_royalty == savings(terminal_revenue)
        terminal_value == Capitalize(terminal_royalty, wacc, terminal_growth)
        pv_terminal == RDiv(terminal_value, RPow(RAdd(One, wacc), N))
    IN  IF N > 0 /\ RIsZero(RAdd(One, wacc)) THEN Failed("ZeroDivisionError", "discount_factor")
        ELSE IF N = 0 THEN Failed("IndexError", "last_revenue")
        ELSE IF RIsZero(RSub(wacc, terminal_growth)) THEN Failed("ZeroDivisionError", "terminal_value")
        ELSE Eval([year \in 1..N |-> row(year)], LAMBDA yearly_details :
             Eval(<<RSum(PresentValues(yearly_details)), pv_terminal>>, LAMBDA pv :
                [err |-> "none", at |-> "",
                 method |-> "Relief from Royalty",
                 total_value |-> RAdd(pv[1], pv[2]),
                 pv_explicit_period |-> pv[1],
                 pv_terminal_value |-> pv[2],
                 yearly_details |-> yearly_details]))

Half == Rat(1, 2)

multi_period_excess_earnings(segment_revenues, operating_margin, contributory_assets, ip_contribution_pct, wacc, tax_rate, terminal_growth) ==
    LET N == Len(segment_revenues)
        charges(revenue) ==
            RSum([a \in 1..Len(contributory_assets) |->
                    RMul(RMul(revenue, Half), contributory_assets[a])])
        row(year) ==
            Eval(<<RMul(segment_revenues[year], operating_margin),
                   charges(segment_revenues[year])>>, LAMBDA v :
            Eval(RSub(v[1], v[2]), LAMBDA excess_earnings :
            Eval(RMul(excess_earnings, ip_contribution_pct), LAMBDA ip_earnings :
            Eval(RMul(ip_earnings, RSub(One, tax_rate)), LAMBDA ip_cash_flow :
                [year |-> year,
                 revenue |-> segment_revenues[year],
                 operating_income |-> v[1],
                 contributory_asset_charges |-> v[2],
                 excess_earnings |-> excess_earnings,
                 ip_earnings |-> ip_earnings,
                 ip_cash_flow |-> ip_cash_flow,
                 present_value |-> RDiv(ip_cash_flow, RPow(RAdd(One, wacc), year))]))))
        last_revenue == segment_revenues[N]
        terminal_revenue == RMul(last_revenue, RAdd(One, terminal_growth))
        terminal_operating_income == RMul(terminal_revenue, operating_margin)
        terminal_cac == RMul(RMul(RSum(contributory_assets), terminal_revenue), Half)
        terminal_excess == RSub(terminal_operating_income, terminal_cac)
        terminal_ip_cf == RMul(RMul(terminal_excess, ip_contribution_pct), RSub(One, tax_rate))
        terminal_value == RDiv(terminal_ip_cf, RSub(wacc, terminal_growth))
        pv_terminal == RDiv(terminal_value, RPow(RAdd(One, wacc), N))
    IN  IF N > 0 /\ RIsZero(RAdd(One, wacc)) THEN Failed("ZeroDivisionError", "discount_factor")
        ELSE IF N = 0 THEN Failed("IndexError", "last_revenue")
        ELSE IF RIsZero(RSub(wacc, terminal_growth)) THEN Failed("ZeroDivisionError", "terminal_value")
        ELSE Eval([year \in 1..N |-> row(year)], LAMBDA yearly_details :
             Eval(<<RSum(PresentValues(yearly_details)), pv_terminal>>, LAMBDA pv :
                [err |-> "none", at |-> "",
                 method |-> "Multi-Period Excess Earnings",
                 total_value |-> RAdd(pv[1], pv[2]),
                 pv_explicit_period |-> pv[1],
                 pv_terminal_value |-> pv[2],
                 yearly_details |-> yearly_details]))

\* a variant of ProjectionYears that projects every available year
ProjectionYearsUncapped(segment_revenues, remaining_life_years) == Len(segment_revenues)

\* projection_years = min(len(segment_revenues), remaining_life_years)
ProjectionYears(segment_revenues, remaining_life_years) == Min(Len(segment_revenues), remaining_life_years)

\* a variant of Decay that loses the whole value over the remaining life
DecayLinear(year, remaining_life_years) == RMax(RSub(One, RDiv(R(year), R(remaining_life_years))), Rat(3, 10))

\* decay = max(1 - (year / (remaining_life_years * 1.5)), 0.3)
Decay(year, remaining_life_years) == RMax(RSub(One, RDiv(R(year), RMul(R(remaining_life_years), Rat(3, 2)))), Rat(3, 10))

technology_factor_valuation(segment_revenues, base_royalty_rate, innovation_score, commercial_score, legal_strength_score, remaining_life_years, total_patent_life, tax_rate, wacc) ==
    LET tech_factor ==
            RAdd(RAdd(RAdd(RMul(innovation_score, Rat(30, 100)),
                           RMul(commercial_score, Rat(35, 100))),
                      RMul(legal_strength_score, Rat(25, 100))),
                 RMul(Rat(remaining_life_years, total_patent_life), Rat(10, 100)))
        projection_years == ProjectionYears(segment_revenues, remaining_life_years)
        decay(year) == Decay(year, remaining_life_years)
        row(year, adjusted_royalty_rate) ==
            Eval(decay(year), LAMBDA d :
            Eval(RMul(RMul(RMul(segment_revenues[year], adjusted_royalty_rate),
                           RSub(One, tax_rate)), d), LAMBDA annual_royalty_savings :
                [year |-> year,
                 revenue |-> segment_revenues[year],
                 decay_factor |-> d,
                 royalty_savings |-> annual_royalty_savings,
                 present_value |-> RDiv(annual_royalty_savings, RPow(RAdd(One, wacc), year))]))
    IN  IF total_patent_life = 0 THEN Failed("ZeroDivisionError", "tech_factor")
        ELSE IF projection_years > 0 /\ RIsZero(RAdd(One, wacc))
        THEN Failed("ZeroDivisionError", "discount_factor")
        ELSE Eval(RMul(base_royalty_rate, RAdd(One, tech_factor)), LAMBDA adjusted_royalty_rate :
             Eval([year \in 1..projection_years |-> row(year, adjusted_royalty_rate)],
                  LAMBDA yearly_details :
                [err |-> "none", at |-> "",
                 method |-> "Technology Factor",
                 total_value |-> RSum(PresentValues(yearly_details)),
                 pv_explicit_period |-> NoneV,
                 pv_terminal_value |-> NoneV,
                 yearly_details |-> yearly_details]))

\* ---------------------------------------------------------------------------
\* FairValueCalculator._dcf_valuation
\* ---------------------------------------------------------------------------
DcfError(msg) ==
    [err |-> "none", error |-> msg, enterprise_value |-> NoneV, equity_value |-> NoneV,
     fair_value_per_share |-> NoneV, pv_cash_flows |-> NoneV, pv_terminal_value |-> NoneV]

DcfRaised(e) ==
    [err |-> e, error |-> "", enterprise_value |-> NoneV, equity_value |-> NoneV,
     fair_value_per_share |-> NoneV, pv_cash_flows |-> NoneV, pv_terminal_value |-> NoneV]

_dcf_valuation(financial_data, growth_rate, terminal_growth, wacc) ==
    LET cashflow_data == financial_data.cashflow
        balance_data == financial_data.balance
        latest_cf == cashflow_data[1]
        latest_bs == balance_data[1]
        fcf == RAdd(latest_cf.operating_cash_flow, latest_cf.capital_expenditures)
        shares == latest_bs.outstanding_shares
    IN  IF cashflow_data = <<>> \/ balance_data = <<>> THEN DcfError("Insufficient data")
        ELSE IF RLe(fcf, Zero) THEN DcfError("Negative free cash flow")
        ELSE IF RIsZero(RAdd(One, wacc)) THEN DcfRaised("ZeroDivisionError")
        ELSE IF RIsZero(RSub(wacc, terminal_growth)) THEN DcfRaised("ZeroDivisionError")
        ELSE Eval([year \in 1..5 |-> RMul(fcf, RPow(RAdd(One, growth_rate), year))],
                  LAMBDA projected_fcf :
             Eval(<<RSum([year \in 1..5 |-> RDiv(projected_fcf[year], RPow(RAdd(One, wacc), year))]),
                    RDiv(RDiv(RMul(projected_fcf[5], RAdd(One, terminal_growth)),
                              RSub(wacc, terminal_growth)),
                         RPow(RAdd(One, wacc), 5))>>, LAMBDA pv :
             Eval(RAdd(pv[1], pv[2]), LAMBDA enterprise_value :
             Eval(RAdd(RSub(enterprise_value, latest_bs.total_debt), latest_bs.cash_and_equivalents),
                  LAMBDA equity_value :
                [err |-> "none", error |-> "",
                 enterprise_value |-> enterprise_value,
                 equity_value |-> equity_value,
                 fair_value_per_share |->
                     IF RLt(Zero, shares) THEN RDiv(equity_value, shares) ELSE Zero,
                 pv_cash_flows |-> pv[1],
                 pv_terminal_value |-> pv[2]]))))

\* ---------------------------------------------------------------------------
\* The engine: self.cache, with the history the properties speak about.
\*   origin[k]   the (ticker, segment, years) request whose miss wrote entry k
\*   readers[k]  the requests that were answered from entry k
\*   served[t]   the profiles returned so far to request t
\*   rounds[t]   the fetch rounds made by the successful calls of request t
\* ---------------------------------------------------------------------------
Triples == Tickers \X SegmentNames \X YearCounts

NewEngine ==
    [cache |-> <<>>, origin |-> <<>>, readers |-> <<>>,
     served |-> [t \in Triples |-> {}], rounds |-> [t \in Triples |-> 0]]

\* one call of prepare_segment_financials on the engine
Prepare(eng, src, ticker, segment_name, years) ==
    Eval(prepare_segment_financials(eng.cache, src, ticker, segment_name, years), LAMBDA r :
      LET k == CacheKey(ticker, segment_name, years)
          t == <<ticker, segment_name, years>>
          keys == DOMAIN r.cache
          written == keys \ DOMAIN eng.cache
      IN  [res |-> r,
           eng |-> [cache |-> r.cache,
                    origin |-> [x \in keys |-> IF x \in written THEN t ELSE eng.origin[x]],
                    readers |-> [x \in keys |->
                                   IF x \in written THEN {}
                                   ELSE IF r.hit /\ x = k THEN eng.readers[x] \cup {t}
                                   ELSE eng.readers[x]],
                    served |-> IF r.out = "ok"
                               THEN [eng.served EXCEPT ![t] = @ \cup {r.profile}]
                               ELSE eng.served,
                    rounds |-> IF r.out = "ok"
                               THEN [eng.rounds EXCEPT ![t] = @ + r.fetches]
                               ELSE eng.rounds]])

\* ---------------------------------------------------------------------------
\* IPAsset and value_ip_asset
\* ---------------------------------------------------------------------------
Segment(name, attribution_pct) == [name |-> name, attribution_pct |-> attribution_pct]

IPAsset(id, related_segments, valuation_method) ==
    [id |-> id, related_segments |-> related_segments, royalty_rate |-> Rat(1, 20),
     valuation_method |-> valuation_method,
     innovation_score |-> NoneV, commercial_score |-> NoneV, legal_strength_score |-> NoneV,
     remaining_life_years |-> NoneV, total_patent_life |-> 20]

\* Python's `x or default`: None and 0 both give the default
OrDefault(x, default) == IF IsNone(x) \/ RIsZero(x) THEN default ELSE x

KnownMethods == { "relief_from_royalty", "excess_earnings", "technology_factor" }

\* the method branch of the loop body for one resolved segment
ApplyMethod(ip_asset, segment_data, attributed_revenues, wacc, tax_rate, terminal_growth) ==
    IF ip_asset.valuation_method = "relief_from_royalty"
    THEN relief_from_royalty(attributed_revenues, ip_asset.royalty_rate, tax_rate, wacc,
                             One, terminal_growth)
    ELSE IF ip_asset.valuation_method = "excess_earnings"
    THEN IF Len(segment_data.operating_margins) = 0
         THEN Failed("ZeroDivisionError", "avg_op_margin")
         ELSE Eval(RDiv(RSum(segment_data.operating_margins),
                        R(Len(segment_data.operating_margins))), LAMBDA avg_op_margin :
              multi_period_excess_earnings(
                 attributed_revenues, avg_op_margin,
                 << Rat(2, 100), Rat(10, 100), Rat(12, 100) >>,
                 Rat(50, 100), wacc, tax_rate, terminal_growth))
    ELSE IF ip_asset.valuation_method = "technology_factor"
    THEN technology_factor_valuation(
                 attributed_revenues, ip_asset.royalty_rate,
                 OrDefault(ip_asset.innovation_score, Rat(7, 10)),
                 OrDefault(ip_asset.commercial_score, Rat(7, 10)),
                 OrDefault(ip_asset.legal_strength_score, Rat(7, 10)),
                 OrDefault(ip_asset.remaining_life_years, R(10)).n,
                 ip_asset.total_patent_life, tax_rate, wacc)
    ELSE Failed("ValueError", "valuation_method")

\* One pass of the loop body over related_segments[i].  acc holds the engine,
\* total_value and segment_valuations so far; lookups records, per segment
\* visited, the outcome of its lookup.  A failed lookup is caught (continue);
\* an exception of the method branch leaves the function (raised), keeping
\* what the lookups wrote to the cache.
\* a variant of Accumulate that assigns instead of adding
AccumulateAssign(total_value, value) == value

\* total_value += result['total_value'], portfolio_value += valuation['total_value']
Accumulate(total_value, value) == RAdd(total_value, value)

\* a variant of SkipSegment without the try/except around the lookup
SkipSegmentRaise(acc, p) ==
    [acc EXCEPT !.raised = TRUE, !.err = "ValueError", !.at = "prepare_segment_financials",
                !.eng = p.eng, !.lookups = Append(@, p.res.out)]

\* except Exception: print a warning and continue with the next segment
SkipSegment(acc, p) == [acc EXCEPT !.eng = p.eng, !.lookups = Append(@, p.res.out)]

AssetStep(acc, a, i) ==
    LET segment_info == a.ip_asset.related_segments[i]
    IN  Eval(Prepare(acc.eng, a.src, a.ticker, segment_info.name, a.years), LAMBDA p :
          IF p.res.out # "ok"
          THEN SkipSegment(acc, p)
          ELSE Eval([j \in 1..Len(p.res.profile.revenues) |->
                        RMul(p.res.profile.revenues[j], segment_info.attribution_pct)],
                    LAMBDA attributed_revenues :
               Eval(ApplyMethod(a.ip_asset, p.res.profile, attributed_revenues,
                                a.wacc, a.tax_rate, a.terminal_growth), LAMBDA result :
                 IF result.err # "none"
                 THEN [acc EXCEPT !.raised = TRUE, !.err = result.err, !.at = result.at,
                                  !.eng = p.eng, !.lookups = Append(@, p.res.out)]
                 ELSE [acc EXCEPT
                         !.eng = p.eng,
                         !.lookups = Append(@, p.res.out),
                         !.total_value = Accumulate(acc.total_value, result.total_value),
                         !.segment_valuations =
                             Append(@, [segment |-> segment_info.name,
                                        segment_attribution |-> segment_info.attribution_pct,
                                        segment_data |-> p.res.profile,
                                        method |-> result.method,
                                        total_value |-> result.total_value,
                                        pv_explicit_period |-> result.pv_explicit_period,
                                        pv_terminal_value |-> result.pv_terminal_value,
                                        yearly_details |-> result.yearly_details])])))

RECURSIVE AssetLoop(_, _, _)
AssetLoop(acc, a, i) ==
    IF i > Len(a.ip_asset.related_segments) \/ acc.raised THEN acc
    ELSE Eval(AssetStep(acc, a, i), LAMBDA next : AssetLoop(next, a, i + 1))

value_ip_asset(eng, src, ticker, ip_asset, wacc, tax_rate, terminal_growth, years) ==
    AssetLoop([raised |-> FALSE, err |-> "none", at |-> "", eng |-> eng,
               total_value |-> Zero, segment_valuations |-> <<>>, lookups |-> <<>>],
              [src |-> src, ticker |-> ticker, ip_asset |-> ip_asset, wacc |-> wacc,
               tax_rate |-> tax_rate, terminal_growth |-> terminal_growth, years |-> years],
              1)

\* ---------------------------------------------------------------------------
\* value_ip_portfolio: every exception of value_ip_asset is caught and the asset
\* skipped.  attempts records, per asset visited, how its valuation ended.
\* ---------------------------------------------------------------------------
DefaultYears == 5

PortfolioStep(acc, a, i) ==
    Eval(value_ip_asset(acc.eng, a.src, a.ticker, a.ip_portfolio[i], a.wacc, a.tax_rate,
                        a.terminal_growth, DefaultYears), LAMBDA v :
      IF v.raised
      THEN [acc EXCEPT !.eng = v.eng, !.attempts = Append(@, v.err)]
      ELSE [acc EXCEPT
              !.eng = v.eng,
              !.attempts = Append(@, "none"),
              !.portfolio_value = Accumulate(acc.portfolio_value, v.total_value),
              !.asset_valuations =
                  Append(@, [ip_asset_id |-> a.ip_portfolio[i].id,
                             total_value |-> v.total_value,
                             segment_valuations |-> v.segment_valuations])])

RECURSIVE PortfolioLoop(_, _, _)
\* a variant of PortfolioLoop that stops at the first asset whose valuation raises
PortfolioLoopBreak(acc, a, i) ==
    IF i > Len(a.ip_portfolio) \/ (\E j \in 1..Len(acc.attempts) : acc.attempts[j] # "none")
    THEN acc
    ELSE Eval(PortfolioStep(acc, a, i), LAMBDA next : PortfolioLoop(next, a, i + 1))

PortfolioLoop(acc, a, i) ==
    IF i > Len(a.ip_portfolio) THEN acc
    ELSE Eval(PortfolioStep(acc, a, i), LAMBDA next : PortfolioLoop(next, a, i + 1))

value_ip_portfolio(eng, src, ticker, ip_portfolio, wacc, tax_rate, terminal_growth) ==
    Eval(PortfolioLoop([eng |-> eng, portfolio_value |-> Zero, asset_valuations |-> <<>>,
                        attempts |-> <<>>],
                       [src |-> src, ticker |-> ticker, ip_portfolio |-> ip_portfolio,
                        wacc |-> wacc, tax_rate |-> tax_rate,
                        terminal_growth |-> terminal_growth],
                       1), LAMBDA r :
      [eng |-> r.eng,
       total_portfolio_value |-> r.portfolio_value,
       asset_count |-> Len(r.asset_valuations),
       asset_valuations |-> r.asset_valuations,
       attempts |-> r.attempts])

\* ---------------------------------------------------------------------------
\* Inputs of the engine calls
\* ---------------------------------------------------------------------------
sA == <<"a">>
sBA == <<"b", "_", "a">>
sAA == <<"A", "-", "a">>
sZ == <<"z">>

AssetTwo == IPAsset("two", << Segment(sA, Rat(1, 5)), Segment(sBA, Rat(3, 10)) >>, "relief_from_royalty")
AssetMissing ==
    IPAsset("missing", << Segment(sA, Rat(1, 5)), Segment(sZ, Rat(1, 2)), Segment(sBA, Rat(3, 10)) >>,
            "relief_from_royalty")
AssetExcess == IPAsset("excess", << Segment(sA, Rat(1, 5)), Segment(sAA, Rat(3, 10)) >>, "excess_earnings")
AssetTech == IPAsset("tech", << Segment(sA, Rat(1, 5)) >>, "technology_factor")
\* a technology_factor asset with its quality scores and remaining life set
TechAsset(id, related_segments, score, remaining_life_years) ==
    [IPAsset(id, related_segments, "technology_factor") EXCEPT
        !.innovation_score = score, !.commercial_score = score, !.legal_strength_score = score,
        !.remaining_life_years = R(remaining_life_years)]
\* a patent in its last year: no remaining life
AssetExpired == TechAsset("expired", << Segment(sA, Rat(1, 5)) >>, Rat(1, 2), 0)
AssetBogus == IPAsset("bogus", << Segment(sZ, Rat(1, 2)), Segment(sA, Rat(1, 5)) >>, "bogus")
AssetBogusMissing == IPAsset("bogus_missing", << Segment(sZ, Rat(1, 2)) >>, "bogus")
Assets ==
    { AssetTwo, AssetMissing, AssetExcess, AssetTech, AssetExpired, AssetBogus, AssetBogusMissing }

PortfolioAssets == { AssetMissing, AssetBogus }
Portfolios == UNION { [1..n -> PortfolioAssets] : n \in 0..MaxPortfolio }

\* (wacc, terminal_growth): wacc above, equal to and below the terminal growth
Assumptions ==
    { [wacc |-> Rat(1, 10), terminal_growth |-> Rat(1, 50)],
      [wacc |-> Rat(1, 50), terminal_growth |-> Rat(1, 50)],
      [wacc |-> Rat(1, 50), terminal_growth |-> Rat(1, 10)] }
TaxRate == Rat(1, 5)

\* what the two fetches of one call return
Source(seg, inc) == [seg |-> seg, inc |-> inc]
Sources ==
    { Source(SegFull, IncFull), Source(SegFull, IncZero), Source(SegFull, IncNoStatements),
      Source(SegFull, IncNoData), Source(SegOther, IncFull), Source(SegNoPeriods, IncFull),
      Source(SegNoData, IncFull), Source(SegGap, IncRising) }
\* the answers drawn for the valuation calls, and their ticker
ValuationSources ==
    { Source(SegFull, IncFull), Source(SegFull, IncNoStatements), Source(SegOther, IncFull),
      Source(SegNoData, IncFull) }
ValuationTickers == { <<"a">> }

\* ---------------------------------------------------------------------------
\* State
\* ---------------------------------------------------------------------------
VARIABLES
    cache,      \* self.cache: cache key -> profile
    origin,     \* history: cache key -> request that wrote the entry
    readers,    \* history: cache key -> requests answered from the entry
    served,     \* history: request -> profiles returned to it
    rounds,     \* history: request -> fetch rounds of its successful calls
    last,       \* the last call: its arguments, what the data source answered, its outcome
    nops,       \* calls made so far
    callers     \* concurrent callers of prepare_segment_financials: position and locals

vars == <<cache, origin, readers, served, rounds, last, nops, callers>>

Engine == [cache |-> cache, origin |-> origin, readers |-> readers, served |-> served, rounds |-> rounds]

SetEngine(eng) ==
    /\ cache' = eng.cache
    /\ origin' = eng.origin
    /\ readers' = eng.readers
    /\ served' = eng.served
    /\ rounds' = eng.rounds

\* the threads that call prepare_segment_financials at the same time
Callers == { 1, 2 }
\* a caller that has not started: its locals are not yet bound
NewCaller ==
    [pc |-> "check", hit |-> FALSE, seg_data |-> SegNoData, income_data |-> IncNoData,
     result |-> NoProfile, out |-> "running"]

Init ==
    /\ cache = NewEngine.cache
    /\ origin = NewEngine.origin
    /\ readers = NewEngine.readers
    /\ served = NewEngine.served
    /\ rounds = NewEngine.rounds
    /\ last = [op |-> "init"]
    /\ nops = 0
    /\ callers = [c \in Callers |-> NewCaller]

\* a caller runs prepare_segment_financials; the data source answers src
PrepareCall ==
    /\ nops < MaxOps
    /\ \E src \in Sources, ticker \in Tickers, segment_name \in SegmentNames, years \in YearCounts :
          \E p \in { Prepare(Engine, src, ticker, segment_name, years) } :
              /\ SetEngine(p.eng)
              /\ last' = [op |-> "prepare_segment_financials", src |-> src, ticker |-> ticker,
                          segment_name |-> segment_name, years |-> years,
                          out |-> p.res.out, profile |-> p.res.profile, hit |-> p.res.hit,
                          fetches |-> p.res.fetches, labels |-> p.res.labels]
    /\ nops' = nops + 1
    /\ UNCHANGED callers

ValueAssetCall ==
    /\ nops < MaxValuations
    /\ \E src \in ValuationSources, ticker \in ValuationTickers, ip_asset \in Assets, a \in Assumptions,
          years \in YearCounts :
          \E v \in { value_ip_asset(Engine, src, ticker, ip_asset, a.wacc, TaxRate,
                                     a.terminal_growth, years) } :
              /\ SetEngine(v.eng)
              /\ last' = [op |-> "value_ip_asset", src |-> src, ticker |-> ticker,
                          ip_asset |-> ip_asset,
                          wacc |-> a.wacc, terminal_growth |-> a.terminal_growth, years |-> years,
                          raised |-> v.raised, err |-> v.err, at |-> v.at,
                          total_value |-> v.total_value,
                          segment_valuations |-> v.segment_valuations,
                          lookups |-> v.lookups]
    /\ nops' = nops + 1
    /\ UNCHANGED callers

ValuePortfolioCall ==
    /\ nops < MaxValuations
    /\ \E src \in ValuationSources, ticker \in ValuationTickers, ip_portfolio \in Portfolios,
          a \in Assumptions :
          \E v \in { value_ip_portfolio(Engine, src, ticker, ip_portfolio, a.wacc, TaxRate,
                                         a.terminal_growth) } :
              /\ SetEngine(v.eng)
              /\ last' = [op |-> "value_ip_portfolio", src |-> src, ticker |-> ticker,
                          ip_portfolio |-> ip_portfolio,
                          wacc |-> a.wacc, terminal_growth |-> a.terminal_growth,
                          total_portfolio_value |-> v.total_portfolio_value,
                          asset_count |-> v.asset_count,
                          asset_valuations |-> v.asset_valuations,
                          attempts |-> v.attempts]
    /\ nops' = nops + 1
    /\ UNCHANGED callers

\* ---------------------------------------------------------------------------
\* Direct calls of the valuation methods and of the DCF
\* ---------------------------------------------------------------------------
RevenueSeqs == { <<>>, << R(100) >>, << R(100), R(110) >> }
RoyaltyRates == { Zero, Rat(1, 20) }
Fractions == { Rat(1, 2), One }
RemainingLives == { 0, 1, 3 }
CashFlow(ocf, capex) == [operating_cash_flow |-> R(ocf), capital_expenditures |-> R(capex)]
Balance(debt, cash, shares) ==
    [total_debt |-> R(debt), cash_and_equivalents |-> R(cash), outstanding_shares |-> R(shares)]
FinancialData ==
    { [cashflow |-> <<>>, balance |-> <<>>],
      [cashflow |-> << CashFlow(50, -60) >>, balance |-> << Balance(10, 5, 10) >>],
      [cashflow |-> << CashFlow(80, -20) >>, balance |-> << Balance(10, 5, 10) >>],
      [cashflow |-> << CashFlow(80, -20) >>, balance |-> << Balance(10, 5, 0) >>] }
DcfAssumptions ==
    { [wacc |-> Rat(1, 2), terminal_growth |-> Rat(1, 4)],
      [wacc |-> Rat(1, 4), terminal_growth |-> Rat(1, 4)],
      [wacc |-> Rat(1, 4), terminal_growth |-> Rat(1, 2)] }
GrowthRates == { Zero, Rat(1, 4) }

\* the inputs of the direct calls of relief_from_royalty: three years growing
\* 10% a year and a last year without revenue are added, with a higher royalty
\* rate, a second tax rate and a higher WACC
ReliefRevenues == RevenueSeqs \cup { << R(100), R(110), R(121) >>, << R(100), Zero >> }
ReliefRoyaltyRates == RoyaltyRates \cup { Rat(1, 10) }
ReliefTaxRates == { TaxRate, Rat(21, 100) }
ReliefAssumptions == Assumptions \cup { [wacc |-> Rat(1, 5), terminal_growth |-> Rat(1, 50)] }

ReliefCall ==
    /\ \E revs \in ReliefRevenues, r \in ReliefRoyaltyRates, f \in Fractions,
          t \in ReliefTaxRates, a \in ReliefAssumptions :
          last' = [op |-> "relief_from_royalty", segment_revenues |-> revs, royalty_rate |-> r,
                   tax_rate |-> t, wacc |-> a.wacc, attribution_pct |-> f,
                   terminal_growth |-> a.terminal_growth,
                   result |-> relief_from_royalty(revs, r, t, a.wacc, f, a.terminal_growth)]
    /\ UNCHANGED <<cache, origin, readers, served, rounds, nops, callers>>

ExcessCall ==
    /\ \E revs \in RevenueSeqs, m \in Fractions, f \in Fractions, a \in Assumptions :
          last' = [op |-> "multi_period_excess_earnings", segment_revenues |-> revs,
                   operating_margin |-> m, ip_contribution_pct |-> f,
                   tax_rate |-> TaxRate, wacc |-> a.wacc, terminal_growth |-> a.terminal_growth,
                   result |-> multi_period_excess_earnings(
                                 revs, m, << Rat(2, 100), Rat(10, 100), Rat(12, 100) >>, f,
                                 a.wacc, TaxRate, a.terminal_growth)]
    /\ UNCHANGED <<cache, origin, readers, served, rounds, nops, callers>>

TechnologyFactorCall ==
    /\ \E revs \in RevenueSeqs, r \in RoyaltyRates, score \in Fractions,
          life \in RemainingLives, a \in Assumptions :
          last' = [op |-> "technology_factor_valuation", segment_revenues |-> revs,
                   base_royalty_rate |-> r, score |-> score, remaining_life_years |-> life,
                   total_patent_life |-> 20, tax_rate |-> TaxRate, wacc |-> a.wacc,
                   result |-> technology_factor_valuation(revs, r, score, score, score, life, 20,
                                                          TaxRate, a.wacc)]
    /\ UNCHANGED <<cache, origin, readers, served, rounds, nops, callers>>

DcfCall ==
    /\ \E fd \in FinancialData, gr \in GrowthRates, a \in DcfAssumptions :
          last' = [op |-> "_dcf_valuation", financial_data |-> fd, growth_rate |-> gr,
                   wacc |-> a.wacc, terminal_growth |-> a.terminal_growth,
                   result |-> _dcf_valuation(fd, gr, a.terminal_growth, a.wacc)]
    /\ UNCHANGED <<cache, origin, readers, served, rounds, nops, callers>>

\* the callers of the valuation methods
NextMethods == ReliefCall \/ ExcessCall \/ TechnologyFactorCall \/ DcfCall
SpecMethods == Init /\ [][NextMethods]_vars

\* ---------------------------------------------------------------------------
\* AssumptionCalculator (auto_assumptions.py).  A field of a fetched statement
\* is a number, None (JSON null) or absent from the dict.
\* ---------------------------------------------------------------------------
Absent == [n |-> 0, d |-> -1]

\* dict.get(key, default): the default only when the key is absent
Get(x, default) == IF x = Absent THEN default ELSE x

\* round(x, 4): to the nearest multiple of 1/10000, ties to the even one.  On a
\* tie Python decides by the binary value of the float; the inputs below give
\* no value that lies exactly between two multiples.
Round4(x) ==
    LET scaled == x.n * 10000
        q == scaled \div x.d
        twice == 2 * (scaled % x.d)
        up == twice > x.d \/ (twice = x.d /\ q % 2 = 1)
    IN  Rat(IF up THEN q + 1 ELSE q, 10000)

\* statistics.mean
Mean(s) == RDiv(RSum(s), R(Len(s)))

\* income_stmt.get('income_statements', []) and balance_sheet.get('balance_sheets', [])
GetList(response) == IF response.has THEN response.list ELSE <<>>

Estimate(value, method) == [err |-> "none", value |-> value, method |-> method]
EstimateRaised(e) == [err |-> e, value |-> NoneV, method |-> ""]

\* a variant of DefaultTaxRate with another constant
DefaultTaxRateOther == Rat(25, 100)

DefaultTaxRate == Rat(21, 100)
DefaultTerminalGrowth == Rat(25, 1000)
DefaultWacc == Rat(10, 100)

\* a variant of Recent that keeps every period
RecentAll(statements) == statements

\* statements[:3]
Recent(statements) == SubSeq(statements, 1, Min(3, Len(statements)))

\* the loop over statements[:3]: the accepted rates, or <<NoneV>> when
\* net_income + tax_expense meets a None (TypeError)
RECURSIVE TaxRates(_, _, _)
TaxRates(statements, i, tax_rates) ==
    IF i > Len(statements) THEN tax_rates
    ELSE LET tax_expense == Get(statements[i].income_tax_expense, Zero)
             net_income == Get(statements[i].net_income, Zero)
         IN  IF IsNone(tax_expense) \/ IsNone(net_income) THEN << NoneV >>
             ELSE Eval(RAdd(net_income, tax_expense), LAMBDA pretax_income :
                  IF RLt(Zero, pretax_income) /\ RLe(Zero, tax_expense)
                  THEN Eval(RDiv(tax_expense, pretax_income), LAMBDA tax_rate :
                       IF RLe(Zero, tax_rate) /\ RLe(tax_rate, Rat(1, 2))
                       THEN TaxRates(statements, i + 1, Append(tax_rates, tax_rate))
                       ELSE TaxRates(statements, i + 1, tax_rates))
                  ELSE TaxRates(statements, i + 1, tax_rates))

_calculate_effective_tax_rate(income_stmt) ==
    LET statements == GetList(income_stmt)
    IN  IF statements = <<>> THEN Estimate(DefaultTaxRate, "default")
        ELSE Eval(TaxRates(Recent(statements), 1, <<>>), LAMBDA tax_rates :
             IF tax_rates = << NoneV >> THEN EstimateRaised("TypeError")
             ELSE IF tax_rates # <<>> THEN Estimate(Round4(Mean(tax_rates)), "calculated")
             ELSE Estimate(DefaultTaxRate, "default"))

\* the loop over range(len(statements) - 1): the accepted growth rates, or
\* <<NoneV>> when a comparison or the subtraction meets a None (TypeError)
RECURSIVE AcceptedGrowthRates(_, _, _)
AcceptedGrowthRates(statements, i, growth_rates) ==
    IF i > Len(statements) - 1 THEN growth_rates
    ELSE LET current_rev == Get(statements[i].revenue, Zero)
             prior_rev == Get(statements[i + 1].revenue, Zero)
         IN  IF IsNone(prior_rev) THEN << NoneV >>
             ELSE IF RLt(Zero, prior_rev)
             THEN IF IsNone(current_rev) THEN << NoneV >>
                  ELSE Eval(RDiv(RSub(current_rev, prior_rev), prior_rev), LAMBDA growth :
                       IF RLt(Rat(-1, 2), growth) /\ RLt(growth, Rat(1, 2))
                       THEN AcceptedGrowthRates(statements, i + 1, Append(growth_rates, growth))
                       ELSE AcceptedGrowthRates(statements, i + 1, growth_rates))
             ELSE AcceptedGrowthRates(statements, i + 1, growth_rates)

RMin(x, y) == Eval(<<x, y>>, LAMBDA a : IF a[2].n * a[1].d < a[1].n * a[2].d THEN a[2] ELSE a[1])

\* a variant of ClampGrowth without the floor
ClampGrowthNoFloor(avg_growth) == RMin(avg_growth, Rat(4, 100))

\* max(min(avg_growth, 0.04), 0.01)
ClampGrowth(avg_growth) == RMax(RMin(avg_growth, Rat(4, 100)), Rat(1, 100))

_calculate_terminal_growth(income_stmt) ==
    LET statements == GetList(income_stmt)
    IN  IF Len(statements) < 3 THEN Estimate(DefaultTerminalGrowth, "default")
        ELSE Eval(AcceptedGrowthRates(statements, 1, <<>>), LAMBDA growth_rates :
             IF growth_rates = << NoneV >> THEN EstimateRaised("TypeError")
             ELSE IF growth_rates # <<>>
             THEN Eval(Mean(growth_rates), LAMBDA avg_growth :
                  Estimate(Round4(ClampGrowth(avg_growth)), "calculated"))
             ELSE Estimate(DefaultTerminalGrowth, "default"))

\* market-cap brackets of the beta, in billions of dollars
MegaCap == 500
LargeCap == 100
MidCap == 10

\* the beta of _calculate_cost_of_equity; "TypeError" when market_cap is None
Beta(market_cap) ==
    IF RLt(R(MegaCap), market_cap) THEN Rat(10, 10)
    ELSE IF RLt(R(LargeCap), market_cap) THEN Rat(11, 10)
    ELSE IF RLt(R(MidCap), market_cap) THEN Rat(12, 10)
    ELSE Rat(13, 10)

RiskFreeRate == Rat(45, 1000)
MarketRiskPremium == Rat(6, 100)

\* a plain number, or NoneV when the comparison with None raises TypeError
_calculate_cost_of_equity(market_cap) ==
    IF IsNone(market_cap) THEN NoneV
    ELSE RAdd(RiskFreeRate, RMul(Beta(market_cap), MarketRiskPremium))

\* a plain number, or NoneV when a comparison with None raises TypeError
_calculate_cost_of_debt(income_stmt, total_debt) ==
    LET statements == GetList(income_stmt)
        interest_expense == Get(statements[1].interest_expense, Zero)
    IN  IF statements = <<>> THEN Rat(4, 100)
        ELSE IF IsNone(total_debt) THEN NoneV
        ELSE IF RLe(total_debt, Zero) THEN Rat(4, 100)
        ELSE IF IsNone(interest_expense) THEN NoneV
        ELSE IF RLt(Zero, interest_expense)
        THEN RMin(RDiv(interest_expense, total_debt), Rat(15, 100))
        ELSE Rat(4, 100)

\* the result of _calculate_wacc, with the weights before rounding
WaccEstimate(wacc, equity_weight, debt_weight, cost_of_equity, cost_of_debt) ==
    [err |-> "none", value |-> wacc, method |-> "calculated",
     equity_weight |-> equity_weight, debt_weight |-> debt_weight,
     cost_of_equity |-> cost_of_equity, cost_of_debt |-> cost_of_debt]

_calculate_wacc(income_stmt, balance_sheet, price_data, tax_rate_info) ==
    LET balance_sheets == GetList(balance_sheet)
        latest_bs == balance_sheets[1]
        total_debt == Get(latest_bs.total_debt, Zero)
        shareholders_equity == Get(latest_bs.shareholders_equity, Zero)
        shares_outstanding == Get(latest_bs.outstanding_shares, Zero)
        current_price == IF price_data.has THEN Get(price_data.price, Zero) ELSE Zero
    IN  IF balance_sheets = <<>> THEN Estimate(DefaultWacc, "default")
        ELSE IF IsNone(shares_outstanding) THEN EstimateRaised("TypeError")
        ELSE IF RLt(Zero, shares_outstanding) /\ IsNone(current_price)
        THEN EstimateRaised("TypeError")
        ELSE Eval(<<IF RLt(Zero, shares_outstanding) /\ RLt(Zero, current_price)
                    THEN RMul(shares_outstanding, current_price)
                    ELSE shareholders_equity,
                    _calculate_cost_of_debt(income_stmt, total_debt)>>, LAMBDA m :
             IF IsNone(m[2]) \/ IsNone(m[1]) \/ IsNone(total_debt)
             THEN EstimateRaised("TypeError")
             ELSE Eval(<<_calculate_cost_of_equity(m[1]), RAdd(m[1], total_debt)>>, LAMBDA e :
                  IF RLt(Zero, e[2])
                  THEN Eval(<<RDiv(m[1], e[2]), RDiv(total_debt, e[2])>>, LAMBDA weight :
                       WaccEstimate(
                         Round4(RAdd(RMul(weight[1], e[1]),
                                     RMul(RMul(weight[2], m[2]),
                                          RSub(One, tax_rate_info.value)))),
                         weight[1], weight[2], e[1], m[2]))
                  ELSE Estimate(DefaultWacc, "default")))

\* Inputs of the estimators.  Amounts are in billions of dollars.
IncomeStatement(income_tax_expense, net_income, revenue, interest_expense) ==
    [income_tax_expense |-> income_tax_expense, net_income |-> net_income,
     revenue |-> revenue, interest_expense |-> interest_expense]
Response(list) == [has |-> TRUE, list |-> list]
EmptyResponse == [has |-> FALSE, list |-> <<>>]

\* one period taxed at 21%, at 1/3, at 1/2, at 60%, with a loss, with a tax credit
StmtTax21 == IncomeStatement(R(21), R(79), R(100), R(2))
StmtTaxThird == IncomeStatement(R(1), R(2), R(103), R(1))
StmtTaxHalf == IncomeStatement(R(1), R(1), R(97), Zero)
StmtTax60 == IncomeStatement(R(60), R(40), R(300), R(30))
StmtLoss == IncomeStatement(R(10), R(-20), Zero, R(1))
StmtCredit == IncomeStatement(R(-5), R(50), R(150), R(1))
StmtNoFields == IncomeStatement(Absent, Absent, Absent, Absent)
StmtNullTax == IncomeStatement(NoneV, R(79), R(100), R(2))
StmtNullRevenue == IncomeStatement(R(21), R(79), NoneV, R(2))
StmtNullInterest == IncomeStatement(R(21), R(79), R(100), NoneV)

IncomeResponses ==
    { EmptyResponse, Response(<<>>),
      Response(<< StmtTax21 >>), Response(<< StmtTaxThird, StmtTax21 >>),
      Response(<< StmtTax60, StmtLoss, StmtCredit >>),
      Response(<< StmtTaxThird, StmtTax21, StmtTaxHalf >>),
      Response(<< StmtTax21, StmtTax21, StmtTax21, StmtTaxHalf >>),
      Response(<< StmtTaxHalf, StmtTax21, StmtTaxThird, StmtTax21 >>),
      Response(<< StmtTax60, StmtTax21, StmtTax21 >>),
      Response(<< StmtCredit, StmtTax21, StmtTax60 >>),
      Response(<< StmtTax21, StmtLoss, StmtLoss >>),
      Response(<< StmtNoFields >>), Response(<< StmtNoFields, StmtNoFields, StmtNoFields >>),
      Response(<< StmtNullTax >>), Response(<< StmtTax21, StmtNullRevenue, StmtTax21 >>),
      Response(<< StmtNullRevenue, StmtLoss, StmtLoss >>),
      Response(<< StmtNullInterest, StmtTax21 >>),
      Response(<< StmtTaxThird, StmtTaxHalf, StmtLoss >>) }

BalanceSheet(total_debt, shareholders_equity, outstanding_shares) ==
    [total_debt |-> total_debt, shareholders_equity |-> shareholders_equity,
     outstanding_shares |-> outstanding_shares]
BalanceResponses ==
    { EmptyResponse, Response(<<>>),
      Response(<< BalanceSheet(R(90), R(400), R(10)) >>),
      Response(<< BalanceSheet(Zero, R(40), R(10)), BalanceSheet(R(90), R(400), R(10)) >>),
      Response(<< BalanceSheet(Zero, Zero, Zero) >>),
      Response(<< BalanceSheet(Absent, Absent, Absent) >>),
      Response(<< BalanceSheet(NoneV, R(400), R(10)) >>),
      Response(<< BalanceSheet(R(100), NoneV, Zero) >>),
      Response(<< BalanceSheet(R(100), R(400), NoneV) >>),
      Response(<< BalanceSheet(R(100), R(-50), Zero) >>) }

\* price_data: no snapshot, or a snapshot with its 'price'
Snapshot(price) == [has |-> TRUE, price |-> price]
PriceData ==
    { [has |-> FALSE, price |-> Absent], Snapshot(NoneV),
      Snapshot(R(1)), Snapshot(R(10)), Snapshot(R(50)), Snapshot(R(60)) }

\* the income statements given to _calculate_wacc: what matters is whether
\* there is a latest statement and its interest expense
WaccIncomeResponses ==
    { EmptyResponse, Response(<< StmtTax21 >>), Response(<< StmtTax60, StmtTax21, StmtTax21 >>),
      Response(<< StmtTaxHalf, StmtTax21, StmtTaxThird, StmtTax21 >>),
      Response(<< StmtNullInterest, StmtTax21 >>) }
TaxRateInfos == { Estimate(DefaultTaxRate, "default"), Estimate(Rat(1, 4), "calculated") }
MarketCaps == { NoneV, R(5), R(10), R(11), R(100), R(101), R(500), R(501) }

TaxRateCall ==
    /\ \E income_stmt \in IncomeResponses :
          last' = [op |-> "_calculate_effective_tax_rate", income_stmt |-> income_stmt,
                   result |-> _calculate_effective_tax_rate(income_stmt)]
    /\ UNCHANGED <<cache, origin, readers, served, rounds, nops, callers>>

TerminalGrowthCall ==
    /\ \E income_stmt \in IncomeResponses :
          last' = [op |-> "_calculate_terminal_growth", income_stmt |-> income_stmt,
                   result |-> _calculate_terminal_growth(income_stmt)]
    /\ UNCHANGED <<cache, origin, readers, served, rounds, nops, callers>>

WaccCall ==
    /\ \E income_stmt \in WaccIncomeResponses, balance_sheet \in BalanceResponses,
          price_data \in PriceData, tax_rate_info \in TaxRateInfos :
          last' = [op |-> "_calculate_wacc", income_stmt |-> income_stmt,
                   balance_sheet |-> balance_sheet, price_data |-> price_data,
                   tax_rate_info |-> tax_rate_info,
                   result |-> _calculate_wacc(income_stmt, balance_sheet, price_data,
                                              tax_rate_info)]
    /\ UNCHANGED <<cache, origin, readers, served, rounds, nops, callers>>

CostOfEquityCall ==
    /\ \E market_cap \in MarketCaps :
          last' = [op |-> "_calculate_cost_of_equity", market_cap |-> market_cap,
                   result |-> _calculate_cost_of_equity(market_cap)]
    /\ UNCHANGED <<cache, origin, readers, served, rounds, nops, callers>>

\* the callers of the estimators
NextEstimators == TaxRateCall \/ TerminalGrowthCall \/ WaccCall \/ CostOfEquityCall
SpecEstimators == Init /\ [][NextEstimators]_vars

\* the orchestrator's callers
Next == ValueAssetCall \/ ValuePortfolioCall
Spec == Init /\ [][Next]_vars

\* the allocator's callers
NextAllocator == PrepareCall
SpecAllocator == Init /\ [][NextAllocator]_vars

\* ---------------------------------------------------------------------------
\* Two callers inside prepare_segment_financials at the same time, on the same
\* engine and the same key, without a lock.  A step is one statement of the
\* method; the data source answers each request on its own.
\* ---------------------------------------------------------------------------
SharedTicker == <<"a">>
SharedSegment == sBA
SharedKey == CacheKey(SharedTicker, SharedSegment, DefaultYears)
SharedSegResponses == { SegNoData, SegFull, SegOther, SegGap }
SharedIncResponses == { IncNoData, IncFull, IncRising }

\* the variables a step inside prepare_segment_financials leaves alone
SequentialState == <<origin, readers, served, rounds, last, nops>>

\* if cache_key in self.cache:
CheckCache ==
    \E c \in Callers :
        /\ callers[c].pc = "check"
        /\ callers' = [callers EXCEPT ![c].pc = IF SharedKey \in DOMAIN cache THEN "return_cached"
                                                ELSE "get_segmented_revenues"]
        /\ UNCHANGED <<cache, SequentialState>>

\* return self.cache[cache_key]
ReturnCached ==
    \E c \in Callers :
        /\ callers[c].pc = "return_cached"
        /\ callers' = [callers EXCEPT ![c].pc = "done", ![c].hit = TRUE, ![c].out = "ok",
                                      ![c].result = cache[SharedKey]]
        /\ UNCHANGED <<cache, SequentialState>>

\* seg_data = self.client.get_segmented_revenues(ticker, limit=years)
GetSegmentedRevenues ==
    \E c \in Callers, seg_data \in SharedSegResponses :
        /\ callers[c].pc = "get_segmented_revenues"
        /\ callers' = [callers EXCEPT ![c].pc = "get_income_statement", ![c].seg_data = seg_data]
        /\ UNCHANGED <<cache, SequentialState>>

\* income_data = self.client.get_income_statement(ticker, limit=years)
GetIncomeStatement ==
    \E c \in Callers, income_data \in SharedIncResponses :
        /\ callers[c].pc = "get_income_statement"
        /\ callers' = [callers EXCEPT ![c].pc = "build", ![c].income_data = income_data]
        /\ UNCHANGED <<cache, SequentialState>>

\* the statements on the caller's locals, from the fetch test to the result
\* dict: the method past its cache test, which never reads self.cache again
BuildResult ==
    \E c \in Callers :
        /\ callers[c].pc = "build"
        /\ \E r \in { prepare_segment_financials(<<>>, Source(callers[c].seg_data, callers[c].income_data),
                                                  SharedTicker, SharedSegment, DefaultYears) } :
              callers' = [callers EXCEPT ![c].pc = IF r.out = "ok" THEN "store" ELSE "done",
                                         ![c].out = IF r.out = "ok" THEN "running" ELSE r.out,
                                         ![c].result = r.profile]
        /\ UNCHANGED <<cache, SequentialState>>

\* self.cache[cache_key] = result; return result
StoreResult ==
    \E c \in Callers :
        /\ callers[c].pc = "store"
        /\ cache' = CacheWrite(cache, SharedKey, callers[c].result)
        /\ callers' = [callers EXCEPT ![c].pc = "done", ![c].out = "ok"]
        /\ UNCHANGED SequentialState

NextConcurrent ==
    CheckCache \/ ReturnCached \/ GetSegmentedRevenues \/ GetIncomeStatement \/ BuildResult \/ StoreResult
SpecConcurrent == Init /\ [][NextConcurrent]_vars

\* ---------------------------------------------------------------------------
\* Properties of prepare_segment_financials
\* ---------------------------------------------------------------------------
LastIsPrepare == last.op = "prepare_segment_financials"

\* C1: once a request (ticker, segment, years) has been answered with a
\* profile, all its answers are that same profile and its successful calls made
\* exactly one fetch round between them.
C1_OneFetchRound ==
    \A t \in Triples :
        served[t] # {} => Cardinality(served[t]) = 1 /\ rounds[t] = 1

\* C2: a cache entry is read back only by the request that wrote it: requests
\* that differ in ticker, segment or years never get each other's profile.
C2_KeyedByTriple ==
    /\ \A k \in DOMAIN cache : readers[k] \subseteq {origin[k]}
    /\ LastIsPrepare /\ last.out = "ok" =>
          last.profile.ticker = last.ticker /\ last.profile.segment_name = last.segment_name

\* the normal form of a label: lowercased, with spaces and hyphens removed
RECURSIVE NormalForm(_)
NormalForm(s) ==
    IF s = <<>> THEN <<>>
    ELSE LET c == Head(s)
             low == IF c = "A" THEN "a" ELSE IF c = "B" THEN "b" ELSE c
         IN  (IF c \in {" ", "-"} THEN <<>> ELSE <<low>>) \o NormalForm(Tail(s))

\* the items of a period with a label whose normal form is that of the request
MatchingItems(period, segment_name) ==
    { i \in 1..Len(period) :
        \E j \in 1..Len(period[i].segments) :
            NormalForm(period[i].segments[j]) = NormalForm(segment_name) }

\* the last call fetched and both fetches returned data
FetchedData == LastIsPrepare /\ ~last.hit /\ last.src.seg.ok /\ last.src.inc.ok

\* C9: the call fails with segment-not-found exactly when it fetched, both
\* fetches returned data and no fetched period has an item matching the request
\* in normal form; the error then carries every label seen in the fetched data,
\* and no other.
C9_SegmentNotFound ==
    LastIsPrepare =>
        LET periods == last.src.seg.periods
            Seen(l) == \E q \in 1..Len(periods) : \E i \in 1..Len(periods[q]) :
                          \E j \in 1..Len(periods[q][i].segments) :
                              periods[q][i].segments[j] = l
        IN  /\ last.out = "segment_not_found" <=>
                  /\ FetchedData
                  /\ \A q \in 1..Len(periods) : MatchingItems(periods[q], last.segment_name) = {}
            /\ last.out = "segment_not_found" =>
                  /\ \A l \in last.labels : Seen(l)
                  /\ \A q \in 1..Len(periods) : \A i \in 1..Len(periods[q]) :
                        \A j \in 1..Len(periods[q][i].segments) :
                            periods[q][i].segments[j] \in last.labels

\* a request that differs from every label as written, refused although the
\* data has labels in two periods
C9_Witness ==
    /\ LastIsPrepare
    /\ last.out = "segment_not_found"
    /\ Cardinality(last.labels) >= 4

\* C10: when a fetched period has two items matching the request in normal
\* form, the lookup fails instead of returning a profile.
C10_AmbiguousLabelFails ==
    FetchedData /\ (\E q \in 1..Len(last.src.seg.periods) :
                       Cardinality(MatchingItems(last.src.seg.periods[q], last.segment_name)) >= 2)
        => last.out # "ok"

\* the last call fetched, found the segment and built a profile
BuiltProfile == FetchedData /\ last.out = "ok"

\* C11: at every index i of a returned profile the segment revenue is the
\* amount that fetched period i reports for the segment, so that it is set
\* against the consolidated statement of the same period.
C11_PeriodsAligned ==
    BuiltProfile =>
        \A i \in 1..Len(last.profile.revenues) :
            \E k \in MatchingItems(last.src.seg.periods[i], last.segment_name) :
                last.src.seg.periods[i][k].amount = last.profile.revenues[i]

\* C12: at every period of a returned profile the allocation fraction is
\* segment revenue / consolidated revenue and lies in [0, 1] when the
\* consolidated revenue is positive, and is 0 otherwise.
C12_AllocationFraction ==
    BuiltProfile =>
        \A i \in 1..Len(last.profile.allocation_pct) :
            LET total_rev == last.src.inc.statements[i].revenue
                alloc == last.profile.allocation_pct[i]
            IN  IF RLt(Zero, total_rev)
                THEN /\ alloc = RDiv(last.profile.revenues[i], total_rev)
                     /\ RLe(Zero, alloc)
                     /\ RLe(alloc, One)
                ELSE alloc = Zero

\* C13: all per-year series of a returned profile have the length given by its
\* 'years' field, which does not exceed the number of income statements fetched.
C13_SeriesLengths ==
    BuiltProfile =>
        /\ \A series \in { last.profile.revenues, last.profile.gross_profits,
                           last.profile.gp_margins, last.profile.rd_expenses,
                           last.profile.operating_incomes, last.profile.operating_margins,
                           last.profile.allocation_pct } :
              Len(series) = last.profile.years
        /\ last.profile.years <= Len(last.src.inc.statements)

\* ---------------------------------------------------------------------------
\* Properties of value_ip_asset and value_ip_portfolio
\* ---------------------------------------------------------------------------
LastIsAsset == last.op = "value_ip_asset"
LastIsPortfolio == last.op = "value_ip_portfolio"

RECURSIVE SumOfTotals(_)
SumOfTotals(valuations) ==
    IF valuations = <<>> THEN Zero
    ELSE RAdd(Head(valuations).total_value, SumOfTotals(Tail(valuations)))

\* what the asset's method gives on one segment valuation's own data
MethodAlone(ip_asset, profile, attribution_pct, wacc, terminal_growth) ==
    ApplyMethod(ip_asset, profile,
                [j \in 1..Len(profile.revenues) |-> RMul(profile.revenues[j], attribution_pct)],
                wacc, TaxRate, terminal_growth)

\* C3: an asset's total_value is the sum of its segment valuations' totals,
\* each being what the method gives on that segment alone; a portfolio's
\* total_portfolio_value is the sum of its asset valuations' totals and its
\* asset_count their number.
C3_Additive ==
    /\ LastIsAsset /\ ~last.raised =>
          /\ last.total_value = SumOfTotals(last.segment_valuations)
          /\ \A i \in 1..Len(last.segment_valuations) :
                LET sv == last.segment_valuations[i]
                IN  sv.total_value =
                        MethodAlone(last.ip_asset, sv.segment_data, sv.segment_attribution,
                                    last.wacc, last.terminal_growth).total_value
    /\ LastIsPortfolio =>
          /\ last.total_portfolio_value = SumOfTotals(last.asset_valuations)
          /\ last.asset_count = Len(last.asset_valuations)
          /\ \A i \in 1..Len(last.asset_valuations) :
                last.asset_valuations[i].total_value =
                    SumOfTotals(last.asset_valuations[i].segment_valuations)

\* a portfolio of two valued assets, one of them with two valued segments
C3_Witness ==
    /\ LastIsPortfolio
    /\ last.asset_count = 2
    /\ last.total_portfolio_value # Zero
    /\ \E i \in 1..2 :
          /\ Len(last.asset_valuations[i].segment_valuations) = 2
          /\ \A j \in 1..2 : last.asset_valuations[i].segment_valuations[j].total_value # Zero

\* the lookup of a segment succeeds: its profile is cached, or both fetches
\* return data and some period has a matching item
Resolvable(c, src, ticker, segment_name, years) ==
    \/ CacheKey(ticker, segment_name, years) \in DOMAIN c
    \/ /\ src.seg.ok
       /\ src.inc.ok
       /\ \E q \in 1..Len(src.seg.periods) : MatchingItems(src.seg.periods[q], segment_name) # {}

C4_Step ==
    last'.op = "value_ip_asset" =>
        LET call == last'
            segs == call.ip_asset.related_segments
            Ok(sg) == Resolvable(cache, call.src, call.ticker, sg.name, call.years)
            resolved == SelectSeq(segs, Ok)
            MethodWorks(sg) ==
                LET k == CacheKey(call.ticker, sg.name, call.years)
                IN  /\ k \in DOMAIN cache'
                    /\ MethodAlone(call.ip_asset, cache'[k], sg.attribution_pct,
                                   call.wacc, call.terminal_growth).err = "none"
        IN  (\E i \in 1..Len(segs) : ~Ok(segs[i])) =>
                /\ ~call.raised <=> \A i \in 1..Len(resolved) : MethodWorks(resolved[i])
                /\ ~call.raised =>
                      /\ [i \in 1..Len(call.segment_valuations) |->
                             call.segment_valuations[i].segment]
                           = [i \in 1..Len(resolved) |-> resolved[i].name]
                      /\ call.total_value = SumOfTotals(call.segment_valuations)
                      /\ resolved = <<>> => call.total_value = Zero

RECURSIVE KeptIds(_, _)
KeptIds(ip_portfolio, attempts) ==
    IF ip_portfolio = <<>> THEN <<>>
    ELSE (IF Head(attempts) = "none" THEN << Head(ip_portfolio).id >> ELSE <<>>)
         \o KeptIds(Tail(ip_portfolio), Tail(attempts))

\* C5: value_ip_portfolio attempts every asset; asset_valuations holds, in
\* input order, exactly the assets whose valuation did not raise,
\* total_portfolio_value sums those and asset_count counts them.
C5_PortfolioSkipsRaising ==
    LastIsPortfolio =>
        /\ Len(last.attempts) = Len(last.ip_portfolio)
        /\ [i \in 1..Len(last.asset_valuations) |-> last.asset_valuations[i].ip_asset_id]
             = KeptIds(last.ip_portfolio, last.attempts)
        /\ last.asset_count = Len(KeptIds(last.ip_portfolio, last.attempts))
        /\ last.total_portfolio_value = SumOfTotals(last.asset_valuations)

\* the first asset raises, the second is valued
C5_Witness ==
    /\ LastIsPortfolio
    /\ Len(last.ip_portfolio) = 2
    /\ last.attempts[1] # "none"
    /\ last.attempts[2] = "none"
    /\ last.asset_count = 1
    /\ last.total_portfolio_value # Zero

\* C7: an asset whose valuation_method is not one of the three known methods
\* makes value_ip_asset raise the unknown-method error, and the error also
\* leaves value_ip_portfolio: a portfolio call that returns held no such asset.
C7_UnknownMethodPropagates ==
    /\ LastIsAsset /\ last.ip_asset.valuation_method \notin KnownMethods =>
          last.raised /\ last.err = "ValueError" /\ last.at = "valuation_method"
    /\ LastIsPortfolio =>
          \A i \in 1..Len(last.ip_portfolio) :
              last.ip_portfolio[i].valuation_method \in KnownMethods

\* C8: a method that fails on one segment's data (an unusable revenue or margin
\* series) does not make value_ip_asset raise: the segment is skipped.
C8_MethodFailureSkipsSegment ==
    LastIsAsset => ~(last.raised /\ last.at \in {"avg_op_margin", "last_revenue"})

\* ---------------------------------------------------------------------------
\* Properties of the valuation methods
\* ---------------------------------------------------------------------------
\* C6: relief_from_royalty, multi_period_excess_earnings and _dcf_valuation
\* end with an error raised for the invalid assumption (a ValueError, the
\* engine's error for a bad request) whenever wacc <= terminal_growth, on
\* inputs that are otherwise usable (some revenue, a positive free cash flow).
C6_InvalidAssumptionRejected ==
    /\ last.op \in {"relief_from_royalty", "multi_period_excess_earnings", "_dcf_valuation"}
    /\ RLe(last.wacc, last.terminal_growth)
    /\ IF last.op = "_dcf_valuation" THEN last.result.error = ""
       ELSE last.segment_revenues # <<>>
    => last.result.err = "ValueError"

\* ---------------------------------------------------------------------------
\* Properties of the assumption estimators
\* ---------------------------------------------------------------------------
LastIsTaxRate == last.op = "_calculate_effective_tax_rate"
LastIsTerminalGrowth == last.op = "_calculate_terminal_growth"
LastIsWacc == last.op = "_calculate_wacc"

\* the response has no statements: it is empty or its list is
NoStatements(response) == ~response.has \/ response.list = <<>>

\* C14: without income statements the tax estimate is exactly 0.21 and the
\* terminal growth exactly 0.025; without balance sheets the WACC is exactly
\* 0.10; each is tagged 'default'.
C14_FallbackConstants ==
    /\ LastIsTaxRate /\ NoStatements(last.income_stmt) =>
          last.result = [err |-> "none", value |-> Rat(21, 100), method |-> "default"]
    /\ LastIsTerminalGrowth /\ NoStatements(last.income_stmt) =>
          last.result = [err |-> "none", value |-> Rat(25, 1000), method |-> "default"]
    /\ LastIsWacc /\ NoStatements(last.balance_sheet) =>
          last.result = [err |-> "none", value |-> Rat(10, 100), method |-> "default"]

\* the tax estimator called on an empty response
C14_Witness ==
    /\ LastIsTaxRate
    /\ ~last.income_stmt.has
    /\ last.result.method = "default"

\* C15: whatever is missing from the inputs (an empty response, an empty list,
\* an absent field or a field without value), the three estimators return an
\* estimate and do not raise.
C15_EstimatorsNeverRaise ==
    LastIsTaxRate \/ LastIsTerminalGrowth \/ LastIsWacc => last.result.err = "none"

\* the tax rate a period implies, and whether the period counts
PretaxIncome(stmt) == RAdd(Get(stmt.net_income, Zero), Get(stmt.income_tax_expense, Zero))
ImpliedRate(stmt) == RDiv(Get(stmt.income_tax_expense, Zero), PretaxIncome(stmt))
Qualifies(stmt) ==
    /\ RLt(Zero, PretaxIncome(stmt))
    /\ RLe(Zero, ImpliedRate(stmt))
    /\ RLe(ImpliedRate(stmt), Rat(1, 2))

\* the implied rates of the qualifying periods among the three most recent
QualifyingRates(statements) ==
    LET q == SelectSeq(SubSeq(statements, 1, IF Len(statements) < 3 THEN Len(statements) ELSE 3),
                       Qualifies)
    IN  [i \in 1..Len(q) |-> ImpliedRate(q[i])]

\* C16 as worded: the returned rate is the mean itself.
C16_ExactMean ==
    LastIsTaxRate /\ last.result.err = "none" =>
        LET rates == QualifyingRates(GetList(last.income_stmt))
        IN  IF rates = <<>>
            THEN last.result.value = Rat(21, 100) /\ last.result.method = "default"
            ELSE last.result.value = Mean(rates) /\ last.result.method = "calculated"

\* C16: the returned rate is the mean, rounded to four decimals, of
\* tax_expense / (net_income + tax_expense) over those of the three most recent
\* periods with positive pretax income and implied rate in [0, 0.50]; with no
\* such period it is the default 0.21; it always lies in [0, 0.50].
C16_TaxRateRoundedMean ==
    LastIsTaxRate /\ last.result.err = "none" =>
        LET rates == QualifyingRates(GetList(last.income_stmt))
        IN  /\ IF rates = <<>>
               THEN last.result.value = Rat(21, 100) /\ last.result.method = "default"
               ELSE last.result.value = Round4(Mean(rates)) /\ last.result.method = "calculated"
            /\ RLe(Zero, last.result.value)
            /\ RLe(last.result.value, Rat(1, 2))

\* four periods, the fourth of which would qualify, and a mean that has more
\* than four decimals
C16_Witness ==
    /\ LastIsTaxRate
    /\ last.result.method = "calculated"
    /\ Len(last.income_stmt.list) = 4
    /\ Qualifies(last.income_stmt.list[4])
    /\ last.result.value # Mean(QualifyingRates(last.income_stmt.list))

\* the year-over-year growth of period i over the period before it (the list
\* is most recent first), and whether it is accepted
PriorRevenue(statements, i) == Get(statements[i + 1].revenue, Zero)
YearGrowth(statements, i) ==
    RDiv(RSub(Get(statements[i].revenue, Zero), PriorRevenue(statements, i)),
         PriorRevenue(statements, i))
GrowthAccepted(statements, i) ==
    /\ RLt(Zero, PriorRevenue(statements, i))
    /\ RLt(Rat(-1, 2), YearGrowth(statements, i))
    /\ RLt(YearGrowth(statements, i), Rat(1, 2))
AcceptedYears(statements) ==
    SelectSeq([i \in 1..(Len(statements) - 1) |-> i], LAMBDA i : GrowthAccepted(statements, i))
AcceptedGrowth(statements) ==
    LET years == AcceptedYears(statements)
    IN  [k \in 1..Len(years) |-> YearGrowth(statements, years[k])]
InBand(x) == RLe(Rat(1, 100), x) /\ RLe(x, Rat(4, 100))
Clamped(x) == IF RLt(x, Rat(1, 100)) THEN Rat(1, 100) ELSE IF RLt(Rat(4, 100), x) THEN Rat(4, 100) ELSE x

\* C17 as worded: the returned growth is the clamped mean itself.
C17_ExactClampedMean ==
    LastIsTerminalGrowth /\ last.result.err = "none" =>
        LET statements == GetList(last.income_stmt)
        IN  /\ InBand(last.result.value)
            /\ IF Len(statements) < 3 \/ AcceptedGrowth(statements) = <<>>
               THEN last.result.value = Rat(25, 1000)
               ELSE last.result.value = Clamped(Mean(AcceptedGrowth(statements)))

\* C17: the terminal growth always lies in [0.01, 0.04]; with fewer than three
\* periods, or when no year-over-year growth with positive prior revenue lies
\* strictly inside (-50%, +50%), it is the default 0.025; otherwise it is the
\* mean of the accepted growth rates clamped to [0.01, 0.04] and rounded to
\* four decimals.
C17_TerminalGrowthBand ==
    LastIsTerminalGrowth /\ last.result.err = "none" =>
        LET statements == GetList(last.income_stmt)
        IN  /\ InBand(last.result.value)
            /\ IF Len(statements) < 3 \/ AcceptedGrowth(statements) = <<>>
               THEN last.result.value = Rat(25, 1000) /\ last.result.method = "default"
               ELSE /\ last.result.value = Round4(Clamped(Mean(AcceptedGrowth(statements))))
                    /\ last.result.method = "calculated"

\* a calculated growth inside the band that has more than four decimals
C17_Witness ==
    /\ LastIsTerminalGrowth
    /\ last.result.method = "calculated"
    /\ last.result.value # Mean(AcceptedGrowth(last.income_stmt.list))
    /\ InBand(Mean(AcceptedGrowth(last.income_stmt.list)))

\* the beta by market-cap bracket with inclusive lower bounds, in billions
BracketBeta(market_cap) ==
    IF RLe(R(500), market_cap) THEN Rat(10, 10)
    ELSE IF RLe(R(100), market_cap) THEN Rat(11, 10)
    ELSE IF RLe(R(10), market_cap) THEN Rat(12, 10)
    ELSE Rat(13, 10)

\* C18: the cost of equity is 0.045 + beta * 0.06 with the beta of the
\* market-cap bracket, the lower bound of each bracket included: >= $500B gives
\* 1.0, >= $100B gives 1.1, >= $10B gives 1.2, anything lower gives 1.3.
C18_InclusiveBrackets ==
    last.op = "_calculate_cost_of_equity" /\ ~IsNone(last.market_cap) =>
        last.result = RAdd(Rat(45, 1000), RMul(BracketBeta(last.market_cap), Rat(6, 100)))

\* ---------------------------------------------------------------------------
\* Properties of relief_from_royalty over two calls in a row
\* ---------------------------------------------------------------------------
\* a call of relief_from_royalty that returned, with WACC > terminal growth >= 0
ReliefReturned(c) ==
    /\ c.op = "relief_from_royalty"
    /\ c.result.err = "none"
    /\ RLe(Zero, c.terminal_growth)
    /\ RLt(c.terminal_growth, c.wacc)

\* the inputs of a call other than the royalty rate, the attribution, the WACC
Others(c) == <<c.segment_revenues, c.tax_rate, c.terminal_growth>>
OnlyRoyaltyDiffers(c, d) ==
    Others(c) = Others(d) /\ c.attribution_pct = d.attribution_pct /\ c.wacc = d.wacc
OnlyAttributionDiffers(c, d) ==
    Others(c) = Others(d) /\ c.royalty_rate = d.royalty_rate /\ c.wacc = d.wacc
OnlyWaccDiffers(c, d) ==
    Others(c) = Others(d) /\ c.royalty_rate = d.royalty_rate
                          /\ c.attribution_pct = d.attribution_pct

\* x < y and x <= y by the sign of the difference
Below(x, y) == RSub(x, y).n < 0
NotAbove(x, y) == RSub(x, y).n <= 0

\* non-decreasing in the royalty rate and in the attribution
RisesWithRoyaltyAndAttribution(c, d) ==
    /\ OnlyRoyaltyDiffers(c, d) /\ RLe(c.royalty_rate, d.royalty_rate) =>
          NotAbove(c.result.total_value, d.result.total_value)
    /\ OnlyAttributionDiffers(c, d) /\ RLe(c.attribution_pct, d.attribution_pct) =>
          NotAbove(c.result.total_value, d.result.total_value)

\* the call has something to discount: a positive royalty rate and
\* attribution, a tax rate below 1 and some positive revenue
Productive(c) ==
    /\ RLt(Zero, c.royalty_rate) /\ RLt(Zero, c.attribution_pct) /\ RLt(c.tax_rate, One)
    /\ \E i \in 1..Len(c.segment_revenues) : RLt(Zero, c.segment_revenues[i])

\* C19 as worded: strictly decreasing in the WACC for every such call.
C19_StrictInWacc ==
    [][ReliefReturned(last) /\ ReliefReturned(last') =>
          /\ RisesWithRoyaltyAndAttribution(last, last')
          /\ OnlyWaccDiffers(last, last') /\ RLt(last.wacc, last'.wacc) =>
                Below(last'.result.total_value, last.result.total_value)]_vars

\* C19: for non-negative revenues, royalty rate >= 0, attribution and tax in
\* [0, 1] and WACC > terminal growth >= 0, the total value does not decrease
\* when the royalty rate or the attribution rises, does not increase when the
\* WACC rises, and strictly decreases with the WACC when royalty rate and
\* attribution are positive, tax is below 1 and some revenue is positive.
C19_Monotone ==
    [][ReliefReturned(last) /\ ReliefReturned(last') =>
          /\ RisesWithRoyaltyAndAttribution(last, last')
          /\ OnlyWaccDiffers(last, last') /\ RLt(last.wacc, last'.wacc) =>
                /\ NotAbove(last'.result.total_value, last.result.total_value)
                /\ Productive(last) =>
                      Below(last'.result.total_value, last.result.total_value)]_vars

\* a productive call at a WACC of 20% that is worth less than the same call at
\* a WACC of 10%
C19_Witness ==
    /\ ReliefReturned(last)
    /\ Productive(last)
    /\ last.wacc = Rat(1, 5)
    /\ RLt(last.result.total_value,
           relief_from_royalty(last.segment_revenues, last.royalty_rate, last.tax_rate,
                               Rat(1, 10), last.attribution_pct,
                               last.terminal_growth).total_value)

\* ---------------------------------------------------------------------------
\* The closed form of relief_from_royalty
\* ---------------------------------------------------------------------------
\* r * (1 - t) * a, the share of a revenue that is the after-tax royalty
RoyaltyShare(c) == RMul(RMul(c.royalty_rate, RSub(One, c.tax_rate)), c.attribution_pct)

\* sum of Ri*r*(1-t)*a/(1+w)^i  +  RN*(1+g)*r*(1-t)*a / ((w-g)*(1+w)^N)
ClosedForm(c) ==
    LET N == Len(c.segment_revenues)
        growth(k) == RPow(RAdd(One, c.wacc), k)
    IN  RAdd(RSum([i \in 1..N |-> RDiv(RMul(c.segment_revenues[i], RoyaltyShare(c)), growth(i))]),
             RDiv(RMul(RMul(c.segment_revenues[N], RAdd(One, c.terminal_growth)), RoyaltyShare(c)),
                  RMul(RSub(c.wacc, c.terminal_growth), growth(N))))

\* revenues [100, 110, 121], r = 5%, t = 21%, a = 100%, w = 10%, g = 2%
HandComputed(c) ==
    /\ c.segment_revenues = << R(100), R(110), R(121) >>
    /\ c.royalty_rate = Rat(5, 100) /\ c.tax_rate = Rat(21, 100) /\ c.attribution_pct = One
    /\ c.wacc = Rat(10, 100) /\ c.terminal_growth = Rat(2, 100)

\* C20: for revenues R1..RN (N >= 1) and w > g the total value is the sum of
\* Ri*r*(1-t)*a/(1+w)^i plus RN*(1+g)*r*(1-t)*a / ((w-g)*(1+w)^N); for revenues
\* [100, 110, 121], r = 5%, t = 21%, a = 100%, w = 10%, g = 2% the year-1
\* after-tax royalty is 3.95 and the total is the hand-computed
\* 3 * 3.95/1.1 + 4.87509 / (0.08 * 1.331) = 4977/88.
C20_ClosedForm ==
    /\ last.op = "relief_from_royalty"
    /\ Len(last.segment_revenues) >= 1
    /\ RLt(last.terminal_growth, last.wacc)
    => /\ last.result.err = "none"
       /\ last.result.total_value = ClosedForm(last)
       /\ HandComputed(last) =>
             /\ last.result.yearly_details[1].royalty_savings = Rat(395, 100)
             /\ last.result.total_value = Rat(4977, 88)

\* the hand-computed call has returned
C20_Witness ==
    /\ last.op = "relief_from_royalty"
    /\ HandComputed(last)
    /\ last.result.err = "none"
    /\ Len(last.result.yearly_details) = 3

\* ---------------------------------------------------------------------------
\* Properties of the results of the valuation methods
\* ---------------------------------------------------------------------------
LastIsTerminalMethod == last.op \in { "relief_from_royalty", "multi_period_excess_earnings" }
LastIsMethod == LastIsTerminalMethod \/ last.op = "technology_factor_valuation"

\* the present values of the rows of a ledger, added up in row order
RECURSIVE LedgerSum(_, _)
LedgerSum(ledger, k) == IF k = 0 THEN Zero ELSE RAdd(LedgerSum(ledger, k - 1), ledger[k].present_value)

\* C21: relief_from_royalty and multi_period_excess_earnings on N >= 1 revenues
\* return total_value = pv_explicit_period + pv_terminal_value, with
\* pv_explicit_period the sum of the ledger's present values, and a ledger of
\* exactly N rows, years 1..N in input order, each with that year's revenue.
C21_LedgerAddsUp ==
    LastIsTerminalMethod /\ last.result.err = "none" =>
        LET result == last.result
            ledger == result.yearly_details
        IN  /\ Len(last.segment_revenues) >= 1
            /\ result.total_value = RAdd(result.pv_explicit_period, result.pv_terminal_value)
            /\ result.pv_explicit_period = LedgerSum(ledger, Len(ledger))
            /\ Len(ledger) = Len(last.segment_revenues)
            /\ \A i \in 1..Len(ledger) :
                  ledger[i].year = i /\ ledger[i].revenue = last.segment_revenues[i]

\* an excess-earnings ledger of two rows with a terminal value
C21_Witness ==
    /\ last.op = "multi_period_excess_earnings"
    /\ last.result.err = "none"
    /\ Len(last.result.yearly_details) = 2
    /\ ~RIsZero(last.result.pv_terminal_value)

\* C22: each of the three methods, called with no revenue at all, fails with
\* an explicit insufficient-data error and returns no result.
C22_EmptyRevenueRejected ==
    LastIsMethod /\ last.segment_revenues = <<>> => last.result.err = "InsufficientData"

\* ---------------------------------------------------------------------------
\* Properties of technology_factor assets
\* ---------------------------------------------------------------------------
LastIsTechAsset ==
    last.op = "value_ip_asset" /\ last.ip_asset.valuation_method = "technology_factor"

\* C23: a technology_factor asset with a remaining life of 0 years is worth 0
\* and has an empty ledger when valued through value_ip_asset, as it is when
\* technology_factor_valuation is called with 0: the remaining life set on the
\* asset, the value 0 included, is the one the method uses.
C23_ExpiredPatentWorthless ==
    LastIsTechAsset /\ ~last.raised /\ last.ip_asset.remaining_life_years = Zero =>
        /\ RIsZero(last.total_value)
        /\ \A i \in 1..Len(last.segment_valuations) :
              last.segment_valuations[i].yearly_details = <<>>

\* ---------------------------------------------------------------------------
\* Properties of technology_factor_valuation
\* ---------------------------------------------------------------------------
LastIsTechnologyFactor == last.op = "technology_factor_valuation" /\ last.result.err = "none"

\* the asset the direct call's arguments describe, valued on the same revenues
\* through the method branch of value_ip_asset with terminal growth g
ThroughAsset(c, g) ==
    ApplyMethod([TechAsset("t", <<>>, c.score, c.remaining_life_years) EXCEPT
                    !.royalty_rate = c.base_royalty_rate],
                NoProfile, c.segment_revenues, c.wacc, c.tax_rate, g)

\* C24: the ledger has exactly min(len(segment_revenues), remaining_life_years)
\* rows, numbered from year 1 and carrying the revenues of those years; the
\* total is the sum of the ledger's present values, without a terminal value;
\* the value of a technology_factor asset is the same for every terminal
\* growth rate.
C24_CappedAtPatentLife ==
    LastIsTechnologyFactor =>
        LET ledger == last.result.yearly_details
            N == Len(last.segment_revenues)
        IN  /\ Len(ledger) = IF N < last.remaining_life_years THEN N
                             ELSE last.remaining_life_years
            /\ \A i \in 1..Len(ledger) :
                  ledger[i].year = i /\ ledger[i].revenue = last.segment_revenues[i]
            /\ last.result.total_value = LedgerSum(ledger, Len(ledger))
            /\ IsNone(last.result.pv_terminal_value)
            /\ \A g \in { Rat(1, 50), Rat(1, 10) } : ThroughAsset(last, g) = ThroughAsset(last, Zero)

\* two years of revenue and one year of patent life left: one row
C24_Witness ==
    /\ LastIsTechnologyFactor
    /\ Len(last.segment_revenues) = 2
    /\ last.remaining_life_years = 1
    /\ Len(last.result.yearly_details) = 1
    /\ ~RIsZero(last.result.total_value)

\* C29: in every ledger row the decay factor is
\* 1 - year / (1.5 * remaining_life_years) and lies in [1/3, 1): the floor of
\* 0.3 takes effect in no row.
C29_DecayAboveFloor ==
    LastIsTechnologyFactor =>
        \A i \in 1..Len(last.result.yearly_details) :
            LET row == last.result.yearly_details[i]
            IN  /\ row.decay_factor = Rat(3 * last.remaining_life_years - 2 * row.year,
                                          3 * last.remaining_life_years)
                /\ RLe(Rat(1, 3), row.decay_factor)
                /\ RLt(row.decay_factor, One)

\* the row of the last year of the patent: a decay of exactly 1/3
C29_Witness ==
    /\ LastIsTechnologyFactor
    /\ Len(last.result.yearly_details) = 1
    /\ last.result.yearly_details[1].year = last.remaining_life_years
    /\ last.result.yearly_details[1].decay_factor = Rat(1, 3)

\* ---------------------------------------------------------------------------
\* Properties of the profiles the valuations work on
\* ---------------------------------------------------------------------------
\* C28: every profile prepare_segment_financials returns, fresh or cached, has
\* at least one revenue entry, so value_ip_asset never calls a valuation method
\* with an empty revenue sequence: no valuation ends on the missing last
\* revenue, and every segment valuation rests on a non-empty series.
C28_NoEmptySeries ==
    /\ \A k \in DOMAIN cache : cache[k].revenues # <<>>
    /\ \A t \in Triples : \A profile \in served[t] : profile.revenues # <<>>
    /\ LastIsAsset =>
          /\ ~(last.raised /\ last.at = "last_revenue")
          /\ \A i \in 1..Len(last.segment_valuations) :
                /\ last.segment_valuations[i].segment_data.revenues # <<>>
                /\ last.segment_valuations[i].yearly_details # <<>>

\* a portfolio whose second asset was valued on a profile read from the cache
C28_Witness ==
    /\ LastIsPortfolio
    /\ last.asset_count >= 1
    /\ \E k \in DOMAIN cache : readers[k] # {}

\* ---------------------------------------------------------------------------
\* Properties of the order of the revenue series
\* ---------------------------------------------------------------------------
\* the amounts the fetched periods report for the segment, in fetch order (the
\* most recent period first), each from the first matching item of its period
FetchedSeries(periods, segment_name) ==
    LET reporting == SelectSeq([q \in 1..Len(periods) |-> q],
                               LAMBDA q : MatchingItems(periods[q], segment_name) # {})
        first(q) == CHOOSE i \in MatchingItems(periods[q], segment_name) :
                        \A k \in MatchingItems(periods[q], segment_name) : i <= k
    IN  [n \in 1..Len(reporting) |-> periods[reporting[n]][first(reporting[n])].amount]

\* C26: the series value_ip_asset hands to relief_from_royalty is the segment's
\* fetched series in fetch order, scaled by the attribution; element 0 is
\* discounted as year 1 and the last element is the base of the terminal value:
\* year 1 is the most recent reported period and the terminal value rests on
\* the oldest fetched one.
C26_MostRecentIsYearOne ==
    LastIsAsset /\ last.ip_asset.valuation_method = "relief_from_royalty" /\ ~last.raised =>
        \A i \in 1..Len(last.segment_valuations) :
            LET sv == last.segment_valuations[i]
                revenues == sv.segment_data.revenues
                N == Len(revenues)
                oldest == RMul(revenues[N], sv.segment_attribution)
                share == RMul(last.ip_asset.royalty_rate, RSub(One, TaxRate))
            IN  /\ nops = 1 => revenues = FetchedSeries(last.src.seg.periods, sv.segment)
                /\ Len(sv.yearly_details) = N
                /\ \A j \in 1..N :
                      /\ sv.yearly_details[j].year = j
                      /\ sv.yearly_details[j].revenue = RMul(revenues[j], sv.segment_attribution)
                /\ sv.pv_terminal_value =
                      RDiv(RMul(RMul(oldest, RAdd(One, last.terminal_growth)), share),
                           RMul(RSub(last.wacc, last.terminal_growth),
                                RPow(RAdd(One, last.wacc), N)))

\* periods of 60 (latest) and 50 (before) attributed at 20%: year 1 carries 12
\* and year 2, the terminal base, carries 10
C26_Witness ==
    /\ LastIsAsset /\ last.ip_asset.valuation_method = "relief_from_royalty" /\ ~last.raised
    /\ \E i \in 1..Len(last.segment_valuations) :
          /\ last.segment_valuations[i].segment_data.revenues = << R(60), R(50) >>
          /\ last.segment_valuations[i].yearly_details[1].revenue = R(12)
          /\ last.segment_valuations[i].yearly_details[2].revenue = R(10)

\* ---------------------------------------------------------------------------
\* Properties of the cache as a whole
\* ---------------------------------------------------------------------------
\* c2 holds every entry of c1, unchanged
Keeps(c1, c2) == \A k \in DOMAIN c1 : k \in DOMAIN c2 /\ c2[k] = c1[k]

\* a valuation a caller may run next: a portfolio of a two-segment asset and
\* a one-segment asset, whose segments are prepared through the cache
ValuationsKeepCache(eng) ==
    \A after \in { value_ip_portfolio(eng, Source(SegFull, IncFull), <<"a">>, << AssetTwo, AssetTech >>,
                                      Rat(1, 10), TaxRate, Rat(1, 50)).eng.cache } :
        Keeps(eng.cache, after)
PrepareFrame ==
    LET k == CacheKey(last'.ticker, last'.segment_name, last'.years)
    IN  /\ IF last'.out = "ok" /\ ~last'.hit
           THEN /\ k \notin DOMAIN cache /\ DOMAIN cache' = DOMAIN cache \cup {k}
                /\ cache'[k] = last'.profile /\ Keeps(cache, cache')
           ELSE cache' = cache
        /\ last'.hit => k \in DOMAIN cache /\ last'.fetches = 0
        /\ last'.out \in { "fetch_error", "segment_not_found" } => k \notin DOMAIN cache' /\ last'.fetches = 1
WrittenEntriesKept == last.op = "prepare_segment_financials" /\ last.out = "ok" /\ ~last.hit => ValuationsKeepCache(Engine)
C27_CacheFrame == /\ []WrittenEntriesKept /\ [][last'.op = "prepare_segment_financials" => PrepareFrame]_vars
C27_Witness ==
    /\ LastIsPrepare
    /\ last.out = "ok" /\ ~last.hit
    /\ Cardinality(DOMAIN cache) = 2


LastIsCalculatedWacc ==
    last.op = "_calculate_wacc" /\ last.result.err = "none" /\ last.result.method = "calculated"

\* half a unit of the fourth decimal, by which round(wacc, 4) may move the WACC
HalfUlp == Rat(1, 20000)

\* C30: a calculated WACC has an equity weight and a debt weight in [0,1]
\* that sum to 1, a cost of debt in (0, 0.15], and lies (up to its rounding to
\* four decimals) between the cost of equity and the after-tax cost of debt,
\* so it is strictly positive.
C30_WaccIsWeightedAverage ==
    LastIsCalculatedWacc =>
        LET r == last.result
            after_tax == RMul(r.cost_of_debt, RSub(One, last.tax_rate_info.value))
        IN  /\ RLe(Zero, r.equity_weight) /\ RLe(r.equity_weight, One)
            /\ RLe(Zero, r.debt_weight) /\ RLe(r.debt_weight, One)
            /\ RIsZero(RSub(RAdd(r.equity_weight, r.debt_weight), One))
            /\ RLt(Zero, r.cost_of_debt) /\ RLe(r.cost_of_debt, Rat(15, 100))
            /\ RLe(RSub(RMin(r.cost_of_equity, after_tax), HalfUlp), r.value)
            /\ RLe(r.value, RAdd(RMax(r.cost_of_equity, after_tax), HalfUlp))
            /\ RLt(Zero, r.value)

\* what a caller's own two answers make: the profile built from them alone
OwnProfile(c) ==
    BuildProfile(SharedTicker, SharedSegment,
                 ExtractRevenues(callers[c].seg_data.periods, 1, Normalize(SharedSegment)),
                 callers[c].income_data.statements)
Wrote(c) == callers[c].pc = "done" /\ ~callers[c].hit /\ callers[c].out = "ok"
ProfileFields ==
    { "ticker", "segment_name", "revenues", "gross_profits", "gp_margins", "rd_expenses",
      "operating_incomes", "operating_margins", "allocation_pct", "years" }
\* every field of the result dict is there, for the shared request, with one
\* value per allocated period
Complete(p) ==
    /\ DOMAIN p = ProfileFields
    /\ p.ticker = SharedTicker /\ p.segment_name = SharedSegment
    /\ p.revenues # <<>> /\ p.years = Len(p.revenues)
    /\ \A f \in { "gross_profits", "gp_margins", "operating_incomes", "operating_margins" } :
           Len(p[f]) = Len(p.allocation_pct)
    /\ Len(p.rd_expenses) = Len(p.allocation_pct) /\ Len(p.allocation_pct) <= Len(p.revenues)

\* C25: with two callers of prepare_segment_financials interleaved on one key
\* and no lock, the cache holds nothing but that key, its entry is absent or
\* the complete profile one caller built from its own two answers and wrote,
\* and a caller that returns has such a profile: its own after a miss, a
\* writer's after a hit.
C25_NoCorruption ==
    /\ DOMAIN cache \subseteq { SharedKey }
    /\ SharedKey \in DOMAIN cache =>
           /\ Complete(cache[SharedKey])
           /\ \E w \in Callers : Wrote(w) /\ cache[SharedKey] = OwnProfile(w)
    /\ \A c \in Callers :
           callers[c].pc = "done" /\ callers[c].out = "ok" =>
               /\ Complete(callers[c].result)
               /\ IF callers[c].hit
                  THEN \E w \in Callers \ {c} : Wrote(w) /\ callers[c].result = OwnProfile(w)
                  ELSE callers[c].result = OwnProfile(c)
\* both callers missed, both fetched, both wrote, and what they wrote differs
C25_Witness ==
    /\ \A c \in Callers : Wrote(c)
    /\ callers[1].result # callers[2].result
    /\ cache[SharedKey] \in { callers[1].result, callers[2].result }
====
